---------------------------- MODULE Spec2Model ----------------------------
(***************************************************************************)
(* A model of the VGA core of the ReactOS virtual DOS machine              *)
(* (subsystems/ntvdm/vga.c): the indexed register file and its port        *)
(* protocol, the planar memory with its address translation, and the       *)
(* refresh path with its mode switch, scan-out and host surfaces.          *)
(*                                                                         *)
(* vga.h and bios.c are not part of the sources at hand.  The register     *)
(* numbers, bit masks and sizes below are the standard VGA ones that       *)
(* vga.h names, and BiosSetVideoMode is modelled as programming the        *)
(* standard 80x25 text mode.                                               *)
(***************************************************************************)
EXTENDS Integers, Sequences, FiniteSets, TLC

(***************************************************************************)
(* vga.h: sizes.                                                           *)
(***************************************************************************)
VGA_NUM_BANKS == 4
VGA_BANK_SIZE == 65536
VGA_PALETTE_SIZE == 768

(***************************************************************************)
(* vga.h: the ports.                                                       *)
(***************************************************************************)
VGA_AC_INDEX == 960
VGA_AC_READ == 961
VGA_MISC_WRITE == 962
VGA_SEQ_INDEX == 964
VGA_SEQ_DATA == 965
VGA_DAC_READ_INDEX == 967
VGA_DAC_WRITE_INDEX == 968
VGA_DAC_DATA == 969
VGA_MISC_READ == 972
VGA_GC_INDEX == 974
VGA_GC_DATA == 975
VGA_CRTC_INDEX == 980
VGA_CRTC_DATA == 981
VGA_STAT_MONO == 954
VGA_STAT_COLOR == 986

(***************************************************************************)
(* vga.h: the register numbers of each bank and the banks' sizes.          *)
(***************************************************************************)
VGA_SEQ_RESET_REG == 0
VGA_SEQ_CLOCK_REG == 1
VGA_SEQ_MASK_REG == 2
VGA_SEQ_MEM_REG == 4
VGA_SEQ_MAX_REG == 5

VGA_GC_RESET_REG == 0
VGA_GC_READ_MAP_SEL_REG == 4
VGA_GC_MODE_REG == 5
VGA_GC_MISC_REG == 6
VGA_GC_MAX_REG == 9

VGA_CRTC_HORZ_TOTAL_REG == 0
VGA_CRTC_END_HORZ_DISP_REG == 1
VGA_CRTC_OVERFLOW_REG == 7
VGA_CRTC_MAX_SCAN_LINE_REG == 9
VGA_CRTC_CURSOR_START_REG == 10
VGA_CRTC_CURSOR_END_REG == 11
VGA_CRTC_START_ADDR_HIGH_REG == 12
VGA_CRTC_START_ADDR_LOW_REG == 13
VGA_CRTC_CURSOR_LOC_HIGH_REG == 14
VGA_CRTC_CURSOR_LOC_LOW_REG == 15
VGA_CRTC_VERT_DISP_END_REG == 18
VGA_CRTC_OFFSET_REG == 19
VGA_CRTC_UNDERLINE_REG == 20
VGA_CRTC_MODE_CONTROL_REG == 23
VGA_CRTC_MAX_REG == 25

VGA_AC_PAL_0_REG == 0
VGA_AC_CONTROL_REG == 16
VGA_AC_MAX_REG == 21

(***************************************************************************)
(* vga.h: the bit masks (each a single bit).                               *)
(***************************************************************************)
VGA_MISC_RAM_ENABLED == 2
VGA_STAT_DD == 1
VGA_STAT_VRETRACE == 8
VGA_SEQ_CLOCK_98DM == 1
VGA_SEQ_MEM_C4 == 8
VGA_GC_MODE_OE == 16
VGA_GC_MODE_SHIFTREG == 32
VGA_GC_MODE_SHIFT256 == 64
VGA_GC_MISC_NOALPHA == 1
VGA_CRTC_OVERFLOW_VDE8 == 2
VGA_CRTC_OVERFLOW_VDE9 == 64
VGA_CRTC_UNDERLINE_DWORD == 64
VGA_CRTC_MODE_CONTROL_BYTE == 64
VGA_AC_CONTROL_8BIT == 64

(***************************************************************************)
(* C arithmetic on the types the source uses.                              *)
(***************************************************************************)
\* A value stored in a BYTE keeps its low 8 bits.
ToByte(x) == x % 256

\* A value stored in a WORD (LOWORD) keeps its low 16 bits.
LOWORD(x) == x % 65536

\* (v & Mask) != 0 for a single-bit Mask.
Test(v, Mask) == (v \div Mask) % 2 = 1

Min(a, b) == IF a < b THEN a ELSE b
Max(a, b) == IF a > b THEN a ELSE b

\* A zero-initialised array kept as the function of its non-zero elements.
Load(arr, i) == IF i \in DOMAIN arr THEN arr[i] ELSE 0

Store(arr, i, v) ==
    IF v = 0
    THEN [k \in (DOMAIN arr) \ {i} |-> arr[k]]
    ELSE [k \in (DOMAIN arr) \cup {i} |-> IF k = i THEN v ELSE arr[k]]

Zeroed == [k \in {} |-> 0]


(***************************************************************************)
(* The state: the private variables of vga.c, the host objects they refer  *)
(* to, the position of the thread that runs the core, and the history the  *)
(* properties speak about.                                                 *)
(***************************************************************************)
VARIABLES
    VgaMemory,              \* BYTE[VGA_NUM_BANKS * VGA_BANK_SIZE]
    VgaMiscRegister,
    VgaSeqIndex, VgaSeqRegisters,
    VgaGcIndex, VgaGcRegisters,
    VgaCrtcIndex, VgaCrtcRegisters,
    VgaAcIndex, VgaAcLatch, VgaAcRegisters,
    VgaDacIndex, VgaDacReadWrite, VgaDacRegisters,
    InVerticalRetrace, InHorizontalRetrace,
    GraphicsConsoleBuffer,  \* handle: NULL, INVALID_HANDLE_VALUE or a surface
    ConsoleFramebuffer,     \* pointer: NULL, a heap block or a surface bitmap
    ConsoleMutex,           \* handle: NULL or the mutex of a surface
    NeedsUpdate, ModeChanged, CursorMoved, TextMode,
    UpdateRectangle,
    VdmRunning,
    HostHeap,               \* the live heap blocks (text cell caches)
    HostGraphics,           \* the live graphics surfaces, each with its mutex
    HostCursor,             \* what SetConsoleCursorInfo/Position last got
    HostUpdate,             \* what the last refresh published
    pc,                     \* where the core's thread is
    lastOp,                 \* the last entry point called, and what it returned
    hist                    \* counters over the calls so far

regVars == <<VgaMiscRegister, VgaSeqIndex, VgaSeqRegisters, VgaGcIndex,
             VgaGcRegisters, VgaCrtcIndex, VgaCrtcRegisters, VgaAcIndex,
             VgaAcLatch, VgaAcRegisters>>
dacVars == <<VgaDacIndex, VgaDacReadWrite, VgaDacRegisters>>
retraceVars == <<InVerticalRetrace, InHorizontalRetrace>>
surfaceVars == <<GraphicsConsoleBuffer, ConsoleFramebuffer, ConsoleMutex,
                 TextMode, VdmRunning, HostHeap, HostGraphics>>
updateVars == <<NeedsUpdate, UpdateRectangle, HostUpdate>>
flagVars == <<ModeChanged, CursorMoved>>

vars == <<VgaMemory, regVars, dacVars, retraceVars, surfaceVars, updateVars,
          flagVars, HostCursor, pc, lastOp, hist>>

Bytes == 0 .. 255

\* Pointers and handles: NULL, INVALID_HANDLE_VALUE, or the object referred to.
NULL == [kind |-> "null", id |-> 0]
INVALID_HANDLE_VALUE == [kind |-> "invalid", id |-> 0]
HeapBlock(id) == [kind |-> "heap", id |-> id]
Surface(id) == [kind |-> "surface", id |-> id]
Bitmap(id) == [kind |-> "bitmap", id |-> id]
Mutex(id) == [kind |-> "mutex", id |-> id]

(***************************************************************************)
(* BiosSetVideoMode(BIOS_DEFAULT_VIDEO_MODE): the register values of the   *)
(* 80x25 colour text mode.                                                 *)
(***************************************************************************)
BiosMisc == 103

BiosSeq == [i \in 0 .. VGA_SEQ_MAX_REG - 1 |-> <<3, 0, 3, 0, 2>>[i + 1]]

BiosGc == [i \in 0 .. VGA_GC_MAX_REG - 1 |->
              <<0, 0, 0, 0, 0, 16, 14, 0, 255>>[i + 1]]

BiosCrtc == [i \in 0 .. VGA_CRTC_MAX_REG - 1 |->
                <<95, 79, 80, 130, 85, 129, 191, 31, 0, 79, 13, 14, 0, 0, 0, 0,
                  156, 142, 143, 40, 31, 150, 185, 163, 255>>[i + 1]]

BiosAc == [i \in 0 .. VGA_AC_MAX_REG - 1 |->
              <<0, 1, 2, 3, 4, 5, 20, 7, 56, 57, 58, 59, 60, 61, 62, 63,
                12, 0, 15, 8, 0>>[i + 1]]

(***************************************************************************)
(* The mode decoder.                                                       *)
(***************************************************************************)
VgaGetAddressSize ==
    IF Test(VgaCrtcRegisters[VGA_CRTC_UNDERLINE_REG], VGA_CRTC_UNDERLINE_DWORD)
    THEN 4
    ELSE IF Test(VgaCrtcRegisters[VGA_CRTC_MODE_CONTROL_REG],
                 VGA_CRTC_MODE_CONTROL_BYTE)
         THEN 1
         ELSE 2

MemoryBase == <<655360, 655360, 720896, 753664>>
MemoryLimit == <<720895, 720895, 753663, 786431>>

VgaGetVideoBaseAddress ==
    MemoryBase[((VgaGcRegisters[VGA_GC_MISC_REG] \div 4) % 4) + 1]

VgaGetVideoLimitAddress ==
    MemoryLimit[((VgaGcRegisters[VGA_GC_MISC_REG] \div 4) % 4) + 1]

NoAlpha == Test(VgaGcRegisters[VGA_GC_MISC_REG], VGA_GC_MISC_NOALPHA)

\* A horizontal resolution that the 8-bit mode leaves as it is.
NotHalved(Dots) == Dots

\* Line 598: the horizontal resolution is halved in 8-bit mode.
HalvedIn8Bit(Dots) ==
    IF Test(VgaAcRegisters[VGA_AC_CONTROL_REG], VGA_AC_CONTROL_8BIT)
    THEN Dots \div 2
    ELSE Dots

\* COORD Resolution, as <<X, Y>>.
VgaGetDisplayResolution ==
    LET MaximumScanLine ==
            1 + (VgaCrtcRegisters[VGA_CRTC_MAX_SCAN_LINE_REG] % 32)
        Overflow == VgaCrtcRegisters[VGA_CRTC_OVERFLOW_REG]
        X0 == VgaCrtcRegisters[VGA_CRTC_END_HORZ_DISP_REG] + 1
        Y0 == VgaCrtcRegisters[VGA_CRTC_VERT_DISP_END_REG]
              + (IF Test(Overflow, VGA_CRTC_OVERFLOW_VDE8) THEN 256 ELSE 0)
              + (IF Test(Overflow, VGA_CRTC_OVERFLOW_VDE9) THEN 512 ELSE 0)
              + 1
        X1 == IF NoAlpha
              THEN HalvedIn8Bit(
                       X0 * (IF Test(VgaSeqRegisters[VGA_SEQ_CLOCK_REG],
                                     VGA_SEQ_CLOCK_98DM)
                             THEN 8 ELSE 9))
              ELSE X0
    IN  <<X1, Y0 \div MaximumScanLine>>

(***************************************************************************)
(* History: the entry point called last with its arguments, the value it   *)
(* returned and the branch it took; and counters over the calls so far.    *)
(***************************************************************************)
Op(op, a, d, r, br) == [op |-> op, a |-> a, d |-> d, r |-> r, br |-> br]

StatusPorts == {VGA_STAT_MONO, VGA_STAT_COLOR}

\* The emulator's loop calls the entry points of the core one at a time, on one
\* thread, for as long as VdmRunning.
CoreIdle == pc = "idle" /\ VdmRunning

(***************************************************************************)
(* The register file: the data-write hooks.                                *)
(***************************************************************************)
VgaWriteSequencer(Data) == [VgaSeqRegisters EXCEPT ![VgaSeqIndex] = Data]

VgaWriteGc(Data) == [VgaGcRegisters EXCEPT ![VgaGcIndex] = Data]

\* The switch of VgaWriteGc: the registers whose write changes the mode.
GcModeRegisters == {VGA_GC_MISC_REG}

VgaWriteCrtc(Data) == [VgaCrtcRegisters EXCEPT ![VgaCrtcIndex] = Data]

\* The two display-end registers, without the overflow register.
CrtcDisplayEndRegisters ==
    {VGA_CRTC_END_HORZ_DISP_REG, VGA_CRTC_VERT_DISP_END_REG}

\* The switch of VgaWriteCrtc.
CrtcModeRegisters ==
    {VGA_CRTC_END_HORZ_DISP_REG, VGA_CRTC_VERT_DISP_END_REG,
     VGA_CRTC_OVERFLOW_REG}

CrtcCursorRegisters ==
    {VGA_CRTC_CURSOR_LOC_LOW_REG, VGA_CRTC_CURSOR_LOC_HIGH_REG,
     VGA_CRTC_CURSOR_START_REG, VGA_CRTC_CURSOR_END_REG}

VgaWriteAc(Data) == [VgaAcRegisters EXCEPT ![VgaAcIndex] = Data]

\* VgaDacIndex is a BYTE: VgaDacIndex++, then VgaDacIndex %= VGA_PALETTE_SIZE.
DacNextIndex(Index) == ToByte(ToByte(Index + 1) % VGA_PALETTE_SIZE)

\* VgaDacIndex = Data % VGA_PALETTE_SIZE, stored in a BYTE.
DacSetIndex(Data) == ToByte(Data % VGA_PALETTE_SIZE)

\* VgaDacRegisters[VgaDacIndex++] = Data.
VgaWriteDac(Data) == Store(VgaDacRegisters, VgaDacIndex, Data)

(***************************************************************************)
(* VgaWritePort.                                                           *)
(***************************************************************************)
\* case VGA_AC_INDEX: the latch decides between the index and the data.
AcWriteSetsIndex(Latch) == ~Latch

\* The latch toggled only by a byte that names a register.
AcLatchOfIndexByte(Latch, Data) ==
    IF Data < VGA_AC_MAX_REG THEN ~Latch ELSE Latch

\* "Toggle the latch".
AcLatchAfterWrite(Latch, Data) == ~Latch

\* Port writes counted in one behaviour; the count stops there.
MaxPortWrites == 3

\* An index register that takes every byte written to it.
IndexUnchecked(Index, Data, MaxReg) == Data

\* An index register that selects the last register of the bank when Data
\* names none.
IndexClamped(Index, Data, MaxReg) == IF Data < MaxReg THEN Data ELSE MaxReg - 1

\* An index register takes Data only if Data names a register of the bank.
IndexAfterWrite(Index, Data, MaxReg) == IF Data < MaxReg THEN Data ELSE Index

\* The port writes, in their order, of a guest that programs the 256-colour
\* graphics geometry: 8-dot clock, graphics, 8-bit colour, two scan lines
\* per row, no overflow bits, 40 character clocks and 200 scan lines.
Mode13Program ==
    <<<<VGA_SEQ_INDEX, VGA_SEQ_CLOCK_REG>>, <<VGA_SEQ_DATA, 1>>,
      <<VGA_GC_INDEX, VGA_GC_MISC_REG>>, <<VGA_GC_DATA, 15>>,
      <<VGA_AC_INDEX, VGA_AC_CONTROL_REG>>, <<VGA_AC_INDEX, 65>>,
      <<VGA_CRTC_INDEX, VGA_CRTC_MAX_SCAN_LINE_REG>>, <<VGA_CRTC_DATA, 1>>,
      <<VGA_CRTC_INDEX, VGA_CRTC_OVERFLOW_REG>>, <<VGA_CRTC_DATA, 0>>,
      <<VGA_CRTC_INDEX, VGA_CRTC_END_HORZ_DISP_REG>>, <<VGA_CRTC_DATA, 39>>,
      <<VGA_CRTC_INDEX, VGA_CRTC_VERT_DISP_END_REG>>, <<VGA_CRTC_DATA, 199>>>>

\* The write reaches an index register and Data names no register of its bank.
IndexDropped(Port, Data) ==
    \/ Port = VGA_SEQ_INDEX /\ Data >= VGA_SEQ_MAX_REG
    \/ Port = VGA_GC_INDEX /\ Data >= VGA_GC_MAX_REG
    \/ Port = VGA_CRTC_INDEX /\ Data >= VGA_CRTC_MAX_REG
    \/ Port = VGA_AC_INDEX /\ AcWriteSetsIndex(VgaAcLatch)
                           /\ Data >= VGA_AC_MAX_REG

VgaWritePort(Port, Data) ==
    /\ CoreIdle
    /\ VgaAcIndex' =
           IF Port = VGA_AC_INDEX /\ AcWriteSetsIndex(VgaAcLatch)
           THEN IndexAfterWrite(VgaAcIndex, Data, VGA_AC_MAX_REG)
           ELSE VgaAcIndex
    /\ VgaAcRegisters' =
           IF Port = VGA_AC_INDEX /\ ~AcWriteSetsIndex(VgaAcLatch)
           THEN VgaWriteAc(Data)
           ELSE VgaAcRegisters
    /\ VgaAcLatch' =
           IF Port = VGA_AC_INDEX
           THEN AcLatchAfterWrite(VgaAcLatch, Data)
           ELSE VgaAcLatch
    /\ VgaSeqIndex' =
           IF Port = VGA_SEQ_INDEX
           THEN IndexAfterWrite(VgaSeqIndex, Data, VGA_SEQ_MAX_REG)
           ELSE VgaSeqIndex
    /\ VgaSeqRegisters' =
           IF Port = VGA_SEQ_DATA THEN VgaWriteSequencer(Data)
           ELSE VgaSeqRegisters
    /\ VgaDacReadWrite' =
           CASE Port = VGA_DAC_READ_INDEX -> FALSE
             [] Port = VGA_DAC_WRITE_INDEX -> TRUE
             [] OTHER -> VgaDacReadWrite
    /\ VgaDacIndex' =
           CASE Port \in {VGA_DAC_READ_INDEX, VGA_DAC_WRITE_INDEX} ->
                    DacSetIndex(Data)
             [] Port = VGA_DAC_DATA /\ VgaDacReadWrite ->
                    DacNextIndex(VgaDacIndex)
             [] OTHER -> VgaDacIndex
    /\ VgaDacRegisters' =
           IF Port = VGA_DAC_DATA /\ VgaDacReadWrite
           THEN VgaWriteDac(Data % 64)
           ELSE VgaDacRegisters
    /\ VgaMiscRegister' =
           IF Port = VGA_MISC_WRITE THEN Data ELSE VgaMiscRegister
    /\ VgaCrtcIndex' =
           IF Port = VGA_CRTC_INDEX
           THEN IndexAfterWrite(VgaCrtcIndex, Data, VGA_CRTC_MAX_REG)
           ELSE VgaCrtcIndex
    /\ VgaCrtcRegisters' =
           IF Port = VGA_CRTC_DATA THEN VgaWriteCrtc(Data)
           ELSE VgaCrtcRegisters
    /\ VgaGcIndex' =
           IF Port = VGA_GC_INDEX
           THEN IndexAfterWrite(VgaGcIndex, Data, VGA_GC_MAX_REG)
           ELSE VgaGcIndex
    /\ VgaGcRegisters' =
           IF Port = VGA_GC_DATA THEN VgaWriteGc(Data) ELSE VgaGcRegisters
    /\ ModeChanged' =
           CASE Port = VGA_GC_DATA /\ VgaGcIndex \in GcModeRegisters -> TRUE
             [] Port = VGA_CRTC_DATA /\ VgaCrtcIndex \in CrtcModeRegisters ->
                    TRUE
             [] OTHER -> ModeChanged
    /\ CursorMoved' =
           IF Port = VGA_CRTC_DATA /\ VgaCrtcIndex \in CrtcCursorRegisters
           THEN TRUE
           ELSE CursorMoved
    /\ lastOp' = Op("WritePort", Port, Data, 0,
                    CASE Port = VGA_AC_INDEX ->
                             IF AcWriteSetsIndex(VgaAcLatch) THEN "index"
                             ELSE "data"
                      [] Port = VGA_DAC_DATA ->
                             IF VgaDacReadWrite THEN "stored" ELSE "ignored"
                      [] OTHER -> "")
    /\ hist' = [hist EXCEPT !.host = FALSE,
                   !.quiet = FALSE,
                   !.programmed = IF /\ @ < Len(Mode13Program)
                                     /\ Mode13Program[@ + 1] = <<Port, Data>>
                                  THEN @ + 1 ELSE @,
                   !.portWrites = Min(@ + 1, MaxPortWrites),
                   !.dropped = IF IndexDropped(Port, Data) THEN Port ELSE @,
                   !.acWrites = IF Port = VGA_AC_INDEX THEN @ + 1 ELSE @,
                   !.dacK = CASE Port = VGA_DAC_WRITE_INDEX -> Data
                              [] Port = VGA_DAC_READ_INDEX -> -1
                              [] OTHER -> @,
                   !.dacPort = IF Port \in {VGA_DAC_WRITE_INDEX,
                                            VGA_DAC_READ_INDEX}
                               THEN Port
                               ELSE @,
                   !.dacN = CASE Port \in {VGA_DAC_WRITE_INDEX,
                                           VGA_DAC_READ_INDEX} -> 0
                              [] Port = VGA_DAC_DATA /\ VgaDacReadWrite ->
                                     @ + 1
                              [] OTHER -> @,
                   !.dacReads = IF Port \in {VGA_DAC_WRITE_INDEX,
                                             VGA_DAC_READ_INDEX}
                                THEN 0
                                ELSE @,
                   !.written = <<>>]
    /\ UNCHANGED <<VgaMemory, retraceVars, surfaceVars, updateVars,
                   HostCursor, pc>>

(***************************************************************************)
(* VgaReadPort.                                                            *)
(***************************************************************************)
\* The read/write state with the two answers exchanged.
DacStateExchanged(ReadWrite) == IF ReadWrite THEN 3 ELSE 0

\* case VGA_DAC_READ_INDEX: "This returns the read/write state".
DacState(ReadWrite) == IF ReadWrite THEN 0 ELSE 3

\* case VGA_STAT_MONO, VGA_STAT_COLOR: the byte returned.
StatusResult(Vertical, Horizontal) ==
    (IF Vertical \/ Horizontal THEN VGA_STAT_DD ELSE 0)
    + (IF Vertical THEN VGA_STAT_VRETRACE ELSE 0)

\* A retrace flag that a status read leaves as it was.
RetraceKept(Flag) == Flag

\* case VGA_STAT_MONO, VGA_STAT_COLOR: "Clear the flags".
RetraceAfterStatus(Flag) == FALSE

\* case VGA_DAC_DATA: "Ignore reads in write mode".
DacReadAllowed(ReadWrite) == ~ReadWrite

VgaReadPortResult(Port) ==
    CASE Port = VGA_AC_INDEX -> VgaAcIndex
      [] Port = VGA_AC_READ -> VgaAcRegisters[VgaAcIndex]
      [] Port = VGA_SEQ_INDEX -> VgaSeqIndex
      [] Port = VGA_SEQ_DATA -> VgaSeqRegisters[VgaSeqIndex]
      [] Port = VGA_DAC_READ_INDEX -> DacState(VgaDacReadWrite)
      [] Port = VGA_DAC_WRITE_INDEX -> VgaDacIndex
      [] Port = VGA_DAC_DATA ->
             IF DacReadAllowed(VgaDacReadWrite)
             THEN Load(VgaDacRegisters, VgaDacIndex)
             ELSE 0
      [] Port = VGA_MISC_READ -> VgaMiscRegister
      [] Port = VGA_CRTC_INDEX -> VgaCrtcIndex
      [] Port = VGA_CRTC_DATA -> VgaCrtcRegisters[VgaCrtcIndex]
      [] Port = VGA_GC_INDEX -> VgaGcIndex
      [] Port = VGA_GC_DATA -> VgaGcRegisters[VgaGcIndex]
      [] Port \in StatusPorts ->
             StatusResult(InVerticalRetrace, InHorizontalRetrace)
      [] OTHER -> 0

VgaReadPort(Port) ==
    /\ CoreIdle
    /\ VgaDacIndex' =
           IF Port = VGA_DAC_DATA /\ DacReadAllowed(VgaDacReadWrite)
           THEN DacNextIndex(VgaDacIndex)
           ELSE VgaDacIndex
    /\ VgaAcLatch' = IF Port \in StatusPorts THEN FALSE ELSE VgaAcLatch
    /\ InHorizontalRetrace' =
           IF Port \in StatusPorts
           THEN RetraceAfterStatus(InHorizontalRetrace)
           ELSE InHorizontalRetrace
    /\ InVerticalRetrace' =
           IF Port \in StatusPorts
           THEN RetraceAfterStatus(InVerticalRetrace)
           ELSE InVerticalRetrace
    /\ lastOp' = Op("ReadPort", Port, 0, VgaReadPortResult(Port),
                    CASE Port = VGA_DAC_DATA ->
                             IF DacReadAllowed(VgaDacReadWrite) THEN "read"
                             ELSE "ignored"
                      [] Port \in StatusPorts ->
                             \* which retrace events came since the last
                             \* status read: "", "h", "v" or "hv"
                             (IF hist.hSince THEN "h" ELSE "")
                             \o (IF hist.vSince THEN "v" ELSE "")
                      [] OTHER -> "")
    /\ hist' = [hist EXCEPT !.host = FALSE,
                   !.acWrites = IF Port \in StatusPorts THEN 0 ELSE @,
                   !.hSince = IF Port \in StatusPorts THEN FALSE ELSE @,
                   !.vSince = IF Port \in StatusPorts THEN FALSE ELSE @,
                   !.statusBefore =
                       IF Port \in StatusPorts
                       THEN IF lastOp.op = "ReadPort"
                               /\ lastOp.a \in StatusPorts
                            THEN lastOp.r
                            ELSE -1
                       ELSE @,
                   !.dacReads = IF Port = VGA_DAC_DATA
                                   /\ DacReadAllowed(VgaDacReadWrite)
                                THEN @ + 1
                                ELSE @]
    /\ UNCHANGED <<VgaMemory, VgaMiscRegister, VgaSeqIndex, VgaSeqRegisters,
                   VgaGcIndex, VgaGcRegisters, VgaCrtcIndex, VgaCrtcRegisters,
                   VgaAcIndex, VgaAcRegisters, VgaDacReadWrite,
                   VgaDacRegisters, surfaceVars, updateVars, flagVars,
                   HostCursor, pc>>

(***************************************************************************)
(* VgaHorizontalRetrace.                                                   *)
(***************************************************************************)
VgaHorizontalRetrace ==
    /\ CoreIdle
    /\ InHorizontalRetrace' = TRUE
    /\ lastOp' = Op("HorizontalRetrace", 0, 0, 0, "")
    /\ hist' = [hist EXCEPT !.host = FALSE, !.hSince = TRUE]
    /\ UNCHANGED <<VgaMemory, regVars, dacVars, InVerticalRetrace,
                   surfaceVars, updateVars, flagVars, HostCursor, pc>>

(***************************************************************************)
(* The address translation.  Address is at or above the aperture base, the *)
(* only addresses the memory hooks are called with, and every product      *)
(* stays far below 2^32, so the DWORD arithmetic never wraps.              *)
(***************************************************************************)
Chain4 == Test(VgaSeqRegisters[VGA_SEQ_MEM_REG], VGA_SEQ_MEM_C4)

OddEven == Test(VgaGcRegisters[VGA_GC_MODE_REG], VGA_GC_MODE_OE)

\* The plane chosen with the odd-even test made before the chain-4 test.
ReadPlaneOddEvenFirst(Offset) ==
    IF Test(VgaGcRegisters[VGA_GC_MODE_REG], VGA_GC_MODE_OE) THEN Offset % 2
    ELSE IF Test(VgaSeqRegisters[VGA_SEQ_MEM_REG], VGA_SEQ_MEM_C4)
         THEN Offset % 4
         ELSE VgaGcRegisters[VGA_GC_READ_MAP_SEL_REG] % 4

\* The plane a read is served from.
ReadPlane(Offset) ==
    IF Chain4 THEN Offset % 4
    ELSE IF OddEven THEN Offset % 2
    ELSE VgaGcRegisters[VGA_GC_READ_MAP_SEL_REG] % 4

\* An offset that is used as it comes.
OffsetNotShifted(Offset) == Offset

\* Offset >>= 2 under chain-4, Offset >>= 1 under odd-even.
ShiftOffset(Offset) ==
    IF Chain4 THEN Offset \div 4
    ELSE IF OddEven THEN Offset \div 2
    ELSE Offset

VgaTranslateReadAddress(Address) ==
    LET Offset == (Address - VgaGetVideoBaseAddress)
    IN  ((ShiftOffset(Offset) * VgaGetAddressSize)
                + ReadPlane(Offset) * VGA_BANK_SIZE)

VgaTranslateWriteAddress(Address) ==
    LET Offset == (Address - VgaGetVideoBaseAddress)
    IN  (ShiftOffset(Offset) * VgaGetAddressSize)

(***************************************************************************)
(* VgaReadMemory and VgaWriteMemory.  VgaMemory has VgaMemorySize bytes;   *)
(* an index past it is an access outside the array.                        *)
(***************************************************************************)
VgaMemorySize == VGA_NUM_BANKS * VGA_BANK_SIZE

RamEnabled == Test(VgaMiscRegister, VGA_MISC_RAM_ENABLED)

PlaneMask == VgaSeqRegisters[VGA_SEQ_MASK_REG] % 16

\* The inner loop of VgaWriteMemory: the planes j that are not skipped.
PlaneWritten(Address, j) ==
    /\ Test(VgaSeqRegisters[VGA_SEQ_MASK_REG], 2 ^ j)
    /\ Chain4 => (Address % 4 = j)
    /\ OddEven => (Address % 2 = j % 2)

\* The indices of VgaMemory that the byte written at Address is stored at.
WriteTargets(Address) ==
    {(VgaTranslateWriteAddress(Address) + j * VGA_BANK_SIZE) :
        j \in {p \in 0 .. VGA_NUM_BANKS - 1 : PlaneWritten(Address, p)}}

StoreAll(arr, S, v) ==
    IF v = 0
    THEN [k \in (DOMAIN arr) \ S |-> arr[k]]
    ELSE [k \in (DOMAIN arr) \cup S |-> IF k \in S THEN v ELSE arr[k]]

RECURSIVE WriteBytes(_, _, _)
WriteBytes(mem, Address, Buffer) ==
    IF Buffer = <<>> THEN mem
    ELSE WriteBytes(StoreAll(mem,
                             {t \in WriteTargets(Address) : t < VgaMemorySize},
                             Head(Buffer)),
                    Address + 1, Tail(Buffer))

\* The stores of a call that fall outside VgaMemory.
StrayWrites(Address, Size) ==
    UNION {{t \in WriteTargets(Address + i) : t >= VgaMemorySize} :
              i \in 0 .. Size - 1}

\* A write that only the plane mask can turn away.
WriteIgnoredByMask == PlaneMask = 0

\* The two early returns of VgaWriteMemory.
WriteIgnored == ~RamEnabled \/ PlaneMask = 0

\* A store outside the array is undefined: the process faults, or the byte
\* lands in memory that is not the core's, or in the static that follows.
WriteOutcomes(Address, Size) ==
    IF ~WriteIgnored /\ StrayWrites(Address, Size) # {}
    THEN {"fault", "stray", "clobber"}
    ELSE {"ok"}

VgaWriteMemory(Address, Buffer) ==
    /\ CoreIdle
    /\ \E o \in WriteOutcomes(Address, Len(Buffer)) :
           /\ VgaMemory' = IF WriteIgnored THEN VgaMemory
                           ELSE WriteBytes(VgaMemory, Address, Buffer)
           /\ VgaMiscRegister' = IF o = "clobber"
                                 THEN Buffer[Len(Buffer)]
                                 ELSE VgaMiscRegister
           /\ pc' = IF o = "fault" THEN "crashed" ELSE "idle"
           /\ lastOp' = Op("WriteMemory", Address, Buffer, 0, o)
           /\ hist' = [hist EXCEPT !.host = FALSE, !.quiet = FALSE,
                                    !.outside = @ \/ o # "ok",
                                    !.memWrites = @ + 1,
                                    !.written = <<Address, Buffer>>]
    /\ UNCHANGED <<VgaSeqIndex, VgaSeqRegisters, VgaGcIndex, VgaGcRegisters,
                   VgaCrtcIndex, VgaCrtcRegisters, VgaAcIndex, VgaAcLatch,
                   VgaAcRegisters, dacVars, retraceVars, surfaceVars,
                   updateVars, flagVars, HostCursor>>

\* The early return of VgaReadMemory.
ReadIgnored == ~RamEnabled

\* The reads of a call that fall outside VgaMemory.
StrayReads(Address, Size) ==
    {i \in 0 .. Size - 1 :
        VgaTranslateReadAddress(Address + i) >= VgaMemorySize}

\* What a byte read outside the array may hold.
StrayBytes == {0, 255}

\* The caller's buffer after the call; Stray is the byte read outside.
ReadBytes(Address, Buffer, Stray) ==
    [i \in 1 .. Len(Buffer) |->
        LET VideoAddress == VgaTranslateReadAddress(Address + i - 1)
        IN  IF VideoAddress < VgaMemorySize
            THEN Load(VgaMemory, VideoAddress)
            ELSE Stray]

Outcome(kind, byte) == [kind |-> kind, byte |-> byte]

ReadOutcomes(Address, Size) ==
    IF ~ReadIgnored /\ StrayReads(Address, Size) # {}
    THEN {Outcome("fault", 0)} \cup {Outcome("stray", b) : b \in StrayBytes}
    ELSE {Outcome("ok", 0)}

VgaReadMemory(Address, Buffer) ==
    /\ CoreIdle
    /\ \E o \in ReadOutcomes(Address, Len(Buffer)) :
           /\ pc' = IF o.kind = "fault" THEN "crashed" ELSE "idle"
           /\ lastOp' =
                  Op("ReadMemory", Address, Buffer,
                     IF ReadIgnored THEN Buffer
                     ELSE ReadBytes(Address, Buffer, o.byte),
                     o.kind)
           /\ hist' = [hist EXCEPT !.host = FALSE,
                                    !.outside = @ \/ o.kind # "ok"]
    /\ UNCHANGED <<VgaMemory, regVars, dacVars, retraceVars, surfaceVars,
                   updateVars, flagVars, HostCursor>>

(***************************************************************************)
(* The host objects: heap blocks (the text cell caches) and graphics       *)
(* surfaces (a bitmap and the mutex that guards it), each created with the *)
(* resolution of its time and zero-filled.  A cell of a text cache is      *)
(* AsciiChar + 256 * Attributes.                                           *)
(***************************************************************************)
Without(f, id) == [k \in (DOMAIN f) \ {id} |-> f[k]]

FreshId(f) == CHOOSE id \in 1 .. Cardinality(DOMAIN f) + 1 : id \notin DOMAIN f

Rect(Left, Top, Right, Bottom) ==
    [Left |-> Left, Top |-> Top, Right |-> Right, Bottom |-> Bottom]

\* A value stored in a SHORT.
ToShort(x) == IF x % 65536 >= 32768 THEN (x % 65536) - 65536 ELSE x % 65536

SHRT_MAX == 32767
SHRT_MIN == -32768

HeapFree(heap, Pointer) ==
    IF Pointer.kind = "heap" /\ Pointer.id \in DOMAIN heap
    THEN Without(heap, Pointer.id)
    ELSE heap

CloseSurface(gfx, Handle) ==
    IF Handle.kind = "surface" /\ Handle.id \in DOMAIN gfx
    THEN Without(gfx, Handle.id)
    ELSE gfx

\* Whether Handle is a live mutex that Who owns.
Owns(gfx, Handle, Who) ==
    /\ Handle.kind = "mutex"
    /\ Handle.id \in DOMAIN gfx
    /\ gfx[Handle.id].owner = Who

\* ReleaseMutex by the core: it fails, and changes nothing, unless the core
\* owns the mutex.
ReleaseMutex(gfx, Handle) ==
    IF Owns(gfx, Handle, "core")
    THEN [gfx EXCEPT ![Handle.id].owner = "none"]
    ELSE gfx

(***************************************************************************)
(* The mode switcher.  It works on the surface part of the state, given    *)
(* as a record s; Created says whether the host could create the surface.  *)
(***************************************************************************)
SurfaceState ==
    [GraphicsConsoleBuffer |-> GraphicsConsoleBuffer,
     ConsoleFramebuffer |-> ConsoleFramebuffer,
     ConsoleMutex |-> ConsoleMutex,
     TextMode |-> TextMode,
     VdmRunning |-> VdmRunning,
     HostHeap |-> HostHeap,
     HostGraphics |-> HostGraphics,
     NeedsUpdate |-> NeedsUpdate,
     UpdateRectangle |-> UpdateRectangle,
     Unowned |-> FALSE]     \* a ReleaseMutex of a mutex the core did not own

VgaEnterGraphicsMode(s, Resolution, Created) ==
    IF Created
    THEN LET id == FreshId(s.HostGraphics)
         IN  [s EXCEPT !.GraphicsConsoleBuffer = Surface(id),
                       !.ConsoleFramebuffer = Bitmap(id),
                       !.ConsoleMutex = Mutex(id),
                       !.HostGraphics =
                           (id :> [X |-> Resolution[1], Y |-> Resolution[2],
                                   bits |-> Zeroed, owner |-> "none"]) @@ @]
    ELSE [s EXCEPT !.GraphicsConsoleBuffer = INVALID_HANDLE_VALUE]

\* A graphics mode that is left without closing its surface.
VgaKeepGraphicsSurface(s) == s

VgaLeaveGraphicsMode(s) ==
    [s EXCEPT !.Unowned = ~Owns(s.HostGraphics, s.ConsoleMutex, "core"),
              !.HostGraphics =
                  CloseSurface(ReleaseMutex(@, s.ConsoleMutex),
                               s.GraphicsConsoleBuffer),
              !.ConsoleMutex = NULL,
              !.GraphicsConsoleBuffer = NULL]

VgaEnterTextMode(s, Resolution, Created) ==
    IF Created
    THEN LET id == FreshId(s.HostHeap)
         IN  [s EXCEPT !.ConsoleFramebuffer = HeapBlock(id),
                       !.HostHeap =
                           (id :> [X |-> Resolution[1], Y |-> Resolution[2],
                                   cells |-> Zeroed]) @@ @]
    ELSE [s EXCEPT !.ConsoleFramebuffer = NULL, !.VdmRunning = FALSE]

VgaLeaveTextMode(s) ==
    [s EXCEPT !.HostHeap = HeapFree(@, s.ConsoleFramebuffer),
              !.ConsoleFramebuffer = NULL]

\* A mode switch that is put off: the surface state stays as it is.
VgaUpdateModeDeferred(s, Created) == s

VgaUpdateMode(s, Created) ==
    LET Resolution == VgaGetDisplayResolution
        left == IF ~s.TextMode THEN VgaLeaveGraphicsMode(s)
                ELSE VgaLeaveTextMode(s)
        entered == IF ~NoAlpha
                   THEN VgaEnterTextMode(left, Resolution, Created)
                   ELSE VgaEnterGraphicsMode(left, Resolution, Created)
    IN  IF ~Created THEN entered
        ELSE [entered EXCEPT
                 !.TextMode = ~NoAlpha,
                 !.NeedsUpdate = TRUE,
                 !.UpdateRectangle =
                     Rect(0, 0, Resolution[1], Resolution[2])]

(***************************************************************************)
(* The text cursor.                                                        *)
(***************************************************************************)
ScanlineSize == VgaCrtcRegisters[VGA_CRTC_OFFSET_REG] * 2

\* WORD Location, without the cursor skew.
CursorLocationNoSkew ==
    LOWORD(VgaCrtcRegisters[VGA_CRTC_CURSOR_LOC_LOW_REG]
           + 256 * VgaCrtcRegisters[VGA_CRTC_CURSOR_LOC_HIGH_REG])

\* WORD Location, with the cursor skew added.
CursorLocation ==
    LOWORD(VgaCrtcRegisters[VGA_CRTC_CURSOR_LOC_LOW_REG]
           + 256 * VgaCrtcRegisters[VGA_CRTC_CURSOR_LOC_HIGH_REG]
           + ((VgaCrtcRegisters[VGA_CRTC_CURSOR_END_REG] \div 32) % 4))

\* What VgaUpdateTextCursor hands to the console; ScanlineSize is not 0.
VgaUpdateTextCursor ==
    LET CursorStart == VgaCrtcRegisters[VGA_CRTC_CURSOR_START_REG] % 64
        CursorEnd == VgaCrtcRegisters[VGA_CRTC_CURSOR_END_REG] % 32
        TextSize == 1 + (VgaCrtcRegisters[VGA_CRTC_MAX_SCAN_LINE_REG] % 32)
    IN  [bVisible |-> CursorStart < CursorEnd,
         dwSize |-> IF CursorStart < CursorEnd
                    THEN (100 * (CursorEnd - CursorStart)) \div TextSize
                    ELSE 0,
         X |-> ToShort(CursorLocation % ScanlineSize),
         Y |-> ToShort(CursorLocation \div ScanlineSize)]

(***************************************************************************)
(* Scan-out: VgaUpdateFramebuffer.                                         *)
(***************************************************************************)
StartAddress ==
    VgaCrtcRegisters[VGA_CRTC_START_ADDR_HIGH_REG] * 256
    + VgaCrtcRegisters[VGA_CRTC_START_ADDR_LOW_REG]

\* DWORD Address at scanline i: ScanlineSize is added after each scanline.
RowAddress(i) == (StartAddress + i * ScanlineSize)

\* Bit n of v, as 0 or 1.
Bit(v, n) == (v \div (2 ^ n)) % 2

\* The index of VgaMemory read for pixel j of scanline i on plane k, with
\* Div pixels to the byte.
PixelIndex(i, j, k, Div) ==
    (k * VGA_BANK_SIZE
            + ((RowAddress(i) + (j \div Div))
                      * VgaGetAddressSize))

Shift256 == Test(VgaGcRegisters[VGA_GC_MODE_REG], VGA_GC_MODE_SHIFT256)
ShiftReg == Test(VgaGcRegisters[VGA_GC_MODE_REG], VGA_GC_MODE_SHIFTREG)
EightBit == Test(VgaAcRegisters[VGA_AC_CONTROL_REG], VGA_AC_CONTROL_8BIT)

\* The indices of VgaMemory that pixel (i, j) is reconstructed from.
PixelIndices(i, j) ==
    IF Shift256
    THEN {PixelIndex(i, j, j % VGA_NUM_BANKS,
                     IF EightBit THEN VGA_NUM_BANKS ELSE VGA_NUM_BANKS * 2)}
    ELSE IF ShiftReg
         THEN {}
         ELSE {PixelIndex(i, j, k, IF EightBit THEN 4 ELSE 8) :
                  k \in 0 .. VGA_NUM_BANKS - 1}

\* VgaMemory[Index]; a read past the array yields the byte Stray.
MemoryByte(Index, Stray) ==
    IF Index < VgaMemorySize THEN Load(VgaMemory, Index) ELSE Stray

\* BYTE PixelData of pixel j of scanline i.
PixelData(i, j, Stray) ==
    IF Shift256
    THEN IF EightBit
         THEN MemoryByte(PixelIndex(i, j, j % VGA_NUM_BANKS, VGA_NUM_BANKS),
                         Stray)
         ELSE LET Data == MemoryByte(PixelIndex(i, j, j % VGA_NUM_BANKS,
                                                VGA_NUM_BANKS * 2), Stray)
              IN  IF (j \div VGA_NUM_BANKS) % 2 = 0
                  THEN Data \div 16
                  ELSE Data % 16
    ELSE IF ShiftReg
         THEN 0
         ELSE IF EightBit
              THEN LET Plane(k) == MemoryByte(PixelIndex(i, j, k, 4), Stray)
                       High == ((3 - (j % 4)) * 2) + 1
                       Pair(k) == Bit(Plane(k), High) * (2 ^ k)
                                  + Bit(Plane(k), High - 1) * (2 ^ (k + 4))
                   IN  Pair(0) + Pair(1) + Pair(2) + Pair(3)
              ELSE LET Plane(k) == MemoryByte(PixelIndex(i, j, k, 8), Stray)
                       One(k) == Bit(Plane(k), 7 - (j % 8)) * (2 ^ k)
                   IN  One(0) + One(1) + One(2) + One(3)

\* CHAR_INFO of the cell at column j of row i: the character from plane 0
\* and the attribute from plane 1.
TextCell(i, j) ==
    LET CurrentAddr ==
            LOWORD(((RowAddress(i) + j) * VgaGetAddressSize))
    IN  Load(VgaMemory, CurrentAddr)
        + 256 * Load(VgaMemory, CurrentAddr + VGA_BANK_SIZE)

\* What ConsoleFramebuffer points to, for the branch that scan-out takes:
\* the contents and the number of cells of a live buffer of the right
\* kind, or nothing.
FramebufferTarget ==
    IF NoAlpha
    THEN IF /\ ConsoleFramebuffer.kind = "bitmap"
            /\ ConsoleFramebuffer.id \in DOMAIN HostGraphics
         THEN LET b == HostGraphics[ConsoleFramebuffer.id]
              IN  [live |-> TRUE, cells |-> b.bits, size |-> b.X * b.Y]
         ELSE [live |-> FALSE, cells |-> Zeroed, size |-> 0]
    ELSE IF /\ ConsoleFramebuffer.kind = "heap"
            /\ ConsoleFramebuffer.id \in DOMAIN HostHeap
         THEN LET b == HostHeap[ConsoleFramebuffer.id]
              IN  [live |-> TRUE, cells |-> b.cells, size |-> b.X * b.Y]
         ELSE [live |-> FALSE, cells |-> Zeroed, size |-> 0]

\* The loops touch cell i * Resolution.X + j of the buffer for every i, j.
\* A cell outside a live buffer is an access the language does not define:
\* through NULL the process faults; otherwise it faults, or the cell holds
\* what is stored to it (and nothing is marked), or it differs (and the
\* cell is marked).
ScanOutcomes ==
    LET Resolution == VgaGetDisplayResolution
        n == Resolution[1] * Resolution[2]
        t == FramebufferTarget
    IN  IF n = 0 \/ (t.live /\ n <= t.size) THEN {"ok"}
        ELSE IF ConsoleFramebuffer = NULL THEN {"fault"}
        ELSE {"fault", "same", "differ"}

\* Whether the graphics loop reads VgaMemory past its end.
ReadsOutside ==
    LET Resolution == VgaGetDisplayResolution
    IN  /\ NoAlpha
        /\ \E i \in 0 .. Resolution[2] - 1, j \in 0 .. Resolution[1] - 1 :
               \E x \in PixelIndices(i, j) : x >= VgaMemorySize

SetMin(S) == CHOOSE x \in S : \A y \in S : x <= y
SetMax(S) == CHOOSE x \in S : \A y \in S : x >= y

\* VgaMarkForUpdate for every cell of Marked (cell p is row p \div X,
\* column p % X), starting from the rectangle r and the flag Needs.
VgaMarkForUpdate(r, Needs, Marked, X) ==
    IF Marked = {} THEN r
    ELSE LET r0 == IF Needs THEN r
                   ELSE Rect(SHRT_MAX, SHRT_MAX, SHRT_MIN, SHRT_MIN)
             Rows == {p \div X : p \in Marked}
             Columns == {p % X : p \in Marked}
         IN  Rect(Min(r0.Left, SetMin(Columns)), Min(r0.Top, SetMin(Rows)),
                  Max(r0.Right, SetMax(Columns)),
                  Max(r0.Bottom, SetMax(Rows)))

\* The result of the loops of VgaUpdateFramebuffer: the buffer's new
\* contents and the cells marked for update.
VgaUpdateFramebuffer(o, Stray) ==
    LET Resolution == VgaGetDisplayResolution
        X == Resolution[1]
        n == X * Resolution[2]
        t == FramebufferTarget
        Inside == 0 .. (Min(n, t.size) - 1)
        New(p) == IF NoAlpha THEN PixelData(p \div X, p % X, Stray)
                  ELSE TextCell(p \div X, p % X)
        Changed == {p \in Inside : New(p) # Load(t.cells, p)}
    IN  [cells |-> [p \in {q \in Inside : New(q) # 0} |-> New(p)],
         marked |-> Changed
                    \cup (IF o = "differ" THEN Min(n, t.size) .. (n - 1)
                          ELSE {})]

(***************************************************************************)
(* VgaRefreshDisplay, in the steps at which the thread of the host's       *)
(* repainter can run in between.                                           *)
(***************************************************************************)
\* Lines 611-631: the mode switch and the cursor update.
RefreshBegin(Created) ==
    /\ CoreIdle
    /\ LET s == IF ModeChanged THEN VgaUpdateMode(SurfaceState, Created)
                ELSE SurfaceState
           DivideByZero == CursorMoved /\ ScanlineSize = 0
       IN  /\ GraphicsConsoleBuffer' = s.GraphicsConsoleBuffer
           /\ ConsoleFramebuffer' = s.ConsoleFramebuffer
           /\ ConsoleMutex' = s.ConsoleMutex
           /\ TextMode' = s.TextMode
           /\ VdmRunning' = s.VdmRunning
           /\ HostHeap' = s.HostHeap
           /\ HostGraphics' = s.HostGraphics
           /\ NeedsUpdate' = s.NeedsUpdate
           /\ UpdateRectangle' = s.UpdateRectangle
           /\ ModeChanged' = FALSE
           /\ CursorMoved' = IF DivideByZero THEN CursorMoved ELSE FALSE
           /\ HostCursor' = IF CursorMoved /\ ~DivideByZero
                            THEN VgaUpdateTextCursor
                            ELSE HostCursor
           /\ pc' = IF DivideByZero THEN "crashed" ELSE "scan"
           /\ hist' = [hist EXCEPT !.host = FALSE, !.unowned = @ \/ s.Unowned]
           /\ lastOp' = Op("Refresh", 0, 0, 0,
                           IF ~ModeChanged THEN ""
                           ELSE IF Created THEN "switched" ELSE "failed")
    /\ UNCHANGED <<VgaMemory, regVars, dacVars, retraceVars, HostUpdate>>

\* Line 359-368: the branch on the mode, and WaitForSingleObject in the
\* graphics branch.  The wait blocks while the repainter owns the mutex and
\* fails at once on a handle that is no live mutex.
ScanOutBegin ==
    /\ pc = "scan"
    /\ ~(NoAlpha /\ Owns(HostGraphics, ConsoleMutex, "host"))
    /\ HostGraphics' =
           IF NoAlpha /\ Owns(HostGraphics, ConsoleMutex, "none")
           THEN [HostGraphics EXCEPT ![ConsoleMutex.id].owner = "core"]
           ELSE HostGraphics
    /\ pc' = "loop"
    /\ UNCHANGED <<VgaMemory, regVars, dacVars, retraceVars,
                   GraphicsConsoleBuffer, ConsoleFramebuffer, ConsoleMutex,
                   TextMode, VdmRunning, HostHeap, updateVars, flagVars,
                   HostCursor, lastOp, hist>>

\* Lines 371-475 and 489-517: the loops over the scanlines.
ScanOutLoop ==
    /\ pc = "loop"
    /\ \E o \in ScanOutcomes,
          Stray \in (IF ReadsOutside THEN StrayBytes ELSE {0}) :
           LET u == VgaUpdateFramebuffer(o, Stray)
               t == FramebufferTarget
           IN  /\ HostGraphics' =
                      IF NoAlpha /\ t.live
                      THEN [HostGraphics EXCEPT
                               ![ConsoleFramebuffer.id].bits = u.cells]
                      ELSE HostGraphics
               /\ HostHeap' =
                      IF ~NoAlpha /\ t.live
                      THEN [HostHeap EXCEPT
                               ![ConsoleFramebuffer.id].cells = u.cells]
                      ELSE HostHeap
               /\ UpdateRectangle' =
                      VgaMarkForUpdate(UpdateRectangle, NeedsUpdate, u.marked,
                                       VgaGetDisplayResolution[1])
               /\ NeedsUpdate' = (NeedsUpdate \/ u.marked # {})
               /\ pc' = IF o = "fault" THEN "crashed" ELSE "unlock"
               /\ hist' = [hist EXCEPT
                              !.outside = @ \/ o # "ok" \/ ReadsOutside,
                              !.unlocked =
                                  @ \/ (/\ NoAlpha
                                        /\ VgaGetDisplayResolution[1]
                                           * VgaGetDisplayResolution[2] > 0
                                        /\ o # "fault"
                                        /\ ~Owns(HostGraphics, ConsoleMutex,
                                                 "core"))]
    /\ UNCHANGED <<VgaMemory, regVars, dacVars, retraceVars,
                   GraphicsConsoleBuffer, ConsoleFramebuffer, ConsoleMutex,
                   TextMode, VdmRunning, HostUpdate, flagVars, HostCursor,
                   lastOp>>

\* Line 481: ReleaseMutex in the graphics branch.
ScanOutEnd ==
    /\ pc = "unlock"
    /\ HostGraphics' = IF NoAlpha
                       THEN ReleaseMutex(HostGraphics, ConsoleMutex)
                       ELSE HostGraphics
    /\ hist' = [hist EXCEPT
                   !.unowned = @ \/ (/\ NoAlpha
                                     /\ ~Owns(HostGraphics, ConsoleMutex,
                                              "core"))]
    /\ pc' = "publish"
    /\ UNCHANGED <<VgaMemory, regVars, dacVars, retraceVars,
                   GraphicsConsoleBuffer, ConsoleFramebuffer, ConsoleMutex,
                   TextMode, VdmRunning, HostHeap, updateVars, flagVars,
                   HostCursor, lastOp>>

\* A refresh that returns after the scan-out and publishes nothing.
RefreshReturnsEarly ==
    /\ pc = "publish"
    /\ InVerticalRetrace' = TRUE
    /\ hist' = [hist EXCEPT !.vSince = TRUE, !.quiet = TRUE]
    /\ pc' = "idle"
    /\ UNCHANGED <<VgaMemory, regVars, dacVars, InHorizontalRetrace,
                   surfaceVars, updateVars, HostUpdate, flagVars, HostCursor,
                   lastOp>>

\* Lines 637-671: the retrace flag and the publication of the rectangle.
RefreshEnd ==
    /\ pc = "publish"
    /\ InVerticalRetrace' = TRUE
    /\ HostUpdate' =
           IF NeedsUpdate
           THEN [kind |-> IF NoAlpha THEN "graphics" ELSE "text",
                 rect |-> UpdateRectangle,
                 Resolution |-> VgaGetDisplayResolution]
           ELSE HostUpdate
    /\ NeedsUpdate' = FALSE
    /\ hist' = [hist EXCEPT !.vSince = TRUE, !.quiet = TRUE]
    /\ pc' = "idle"
    /\ UNCHANGED <<VgaMemory, regVars, dacVars, InHorizontalRetrace,
                   surfaceVars, UpdateRectangle, flagVars, HostCursor,
                   lastOp>>

(***************************************************************************)
(* The host's repainter: it reads the bitmap of a surface while it owns    *)
(* the surface's mutex.                                                    *)
(***************************************************************************)
RepaintBegin(id) ==
    /\ id \in DOMAIN HostGraphics
    /\ HostGraphics[id].owner = "none"
    /\ HostGraphics' = [HostGraphics EXCEPT ![id].owner = "host"]
    /\ UNCHANGED <<VgaMemory, regVars, dacVars, retraceVars,
                   GraphicsConsoleBuffer, ConsoleFramebuffer, ConsoleMutex,
                   TextMode, VdmRunning, HostHeap, updateVars, flagVars,
                   HostCursor, pc, lastOp>>
    /\ hist' = [hist EXCEPT !.host = TRUE]

RepaintEnd(id) ==
    /\ id \in DOMAIN HostGraphics
    /\ HostGraphics[id].owner = "host"
    /\ HostGraphics' = [HostGraphics EXCEPT ![id].owner = "none"]
    /\ UNCHANGED <<VgaMemory, regVars, dacVars, retraceVars,
                   GraphicsConsoleBuffer, ConsoleFramebuffer, ConsoleMutex,
                   TextMode, VdmRunning, HostHeap, updateVars, flagVars,
                   HostCursor, pc, lastOp>>
    /\ hist' = [hist EXCEPT !.host = TRUE]

(***************************************************************************)
(* VgaInitialize: the state it leaves, given the register values that      *)
(* BiosSetVideoMode programmed.  The static initialisers give the rest;    *)
(* VgaUpdateMode allocates the text cell cache and asks for a full update. *)
(* The console that is read back into planes 0 and 1 is blank.             *)
(*                                                                         *)
(* Programmed(..., TRUE) is the state a guest brings the adapter to from   *)
(* there by writing the same five banks through the index and data ports   *)
(* (GC_MISC among them, so the mode is re-entered), setting each index     *)
(* back to 0, letting one refresh of a text mode pass and reading the      *)
(* status port: the cell cache is reallocated at the new resolution and    *)
(* the full update has been delivered to the console.  Memory is what the  *)
(* guest has stored in video memory since.                                 *)
(***************************************************************************)
NoHistory ==
    [acWrites |-> 0, dacK |-> -1, dacN |-> 0, dacReads |-> 0, dacPort |-> 0,
     hSince |-> FALSE, statusBefore |-> -1,
     vSince |-> FALSE, outside |-> FALSE, unowned |-> FALSE,
     unlocked |-> FALSE, memWrites |-> 0, written |-> <<>>,
     portWrites |-> 0, dropped |-> 0,
     host |-> FALSE, quiet |-> FALSE, programmed |-> 0]

Programmed(MiscRegs, SeqRegs, GcRegs, CrtcRegs, AcRegs, Refreshed, Memory) ==
    /\ VgaMemory = Memory
    /\ VgaMiscRegister = MiscRegs
    /\ VgaSeqIndex = VGA_SEQ_RESET_REG
    /\ VgaSeqRegisters = SeqRegs
    /\ VgaGcIndex = VGA_GC_RESET_REG
    /\ VgaGcRegisters = GcRegs
    /\ VgaCrtcIndex = VGA_CRTC_HORZ_TOTAL_REG
    /\ VgaCrtcRegisters = CrtcRegs
    /\ VgaAcIndex = VGA_AC_PAL_0_REG
    /\ VgaAcLatch = FALSE
    /\ VgaAcRegisters = AcRegs
    /\ VgaDacIndex = 0
    /\ VgaDacReadWrite = FALSE
    /\ VgaDacRegisters = Zeroed
    /\ InVerticalRetrace = FALSE
    /\ InHorizontalRetrace = FALSE
    /\ GraphicsConsoleBuffer = NULL
    /\ ConsoleFramebuffer = HeapBlock(1)
    /\ ConsoleMutex = NULL
    /\ NeedsUpdate = ~Refreshed
    /\ ModeChanged = FALSE
    /\ CursorMoved = FALSE
    /\ TextMode = TRUE
    /\ UpdateRectangle = Rect(0, 0, VgaGetDisplayResolution[1],
                              VgaGetDisplayResolution[2])
    /\ VdmRunning = TRUE
    /\ HostHeap = (1 :> [X |-> VgaGetDisplayResolution[1],
                         Y |-> VgaGetDisplayResolution[2],
                         cells |-> Zeroed])
    /\ HostGraphics = [k \in {} |-> 0]
    /\ HostCursor = [bVisible |-> FALSE, dwSize |-> 0, X |-> 0, Y |-> 0]
    /\ HostUpdate = IF Refreshed
                    THEN [kind |-> "text", rect |-> UpdateRectangle,
                          Resolution |-> VgaGetDisplayResolution]
                    ELSE [kind |-> "none", rect |-> Rect(0, 0, 0, 0),
                          Resolution |-> <<0, 0>>]
    /\ pc = "idle"
    /\ lastOp = Op("Initialize", 0, 0, 0, "")
    /\ hist = NoHistory

Init ==
    Programmed(BiosMisc, BiosSeq, BiosGc, BiosCrtc, BiosAc, FALSE, Zeroed)

\* The BIOS text mode shrunk to 2 columns by 2 rows of one scanline each.
SmallCrtc ==
    [BiosCrtc EXCEPT ![VGA_CRTC_END_HORZ_DISP_REG] = 1,
                     ![VGA_CRTC_OVERFLOW_REG] = 0,
                     ![VGA_CRTC_MAX_SCAN_LINE_REG] = 0,
                     ![VGA_CRTC_VERT_DISP_END_REG] = 1]

InitSmall ==
    Programmed(BiosMisc, BiosSeq, BiosGc, SmallCrtc, BiosAc, TRUE, Zeroed)

(***************************************************************************)
(* The DAC ports under a guest that programs and reads back the palette.   *)
(***************************************************************************)
\* Data-port accesses that follow one write of an index port.
MaxDacData == 2

\* The index bytes written: the first entry and the last two a byte holds.
DacIndexBytes == {0, 254, 255}

\* The colour bytes written: one inside six bits, one with all bits set.
DacDataBytes == {21, 255}

DacPorts == {VGA_DAC_READ_INDEX, VGA_DAC_WRITE_INDEX, VGA_DAC_DATA}

DacWrite ==
    \E Port \in DacPorts :
        \E Data \in IF Port = VGA_DAC_DATA THEN DacDataBytes
                    ELSE DacIndexBytes :
            /\ Port = VGA_DAC_DATA => hist.dacN < MaxDacData
            /\ VgaWritePort(Port, Data)

DacRead ==
    \E Port \in DacPorts :
        /\ Port = VGA_DAC_DATA => hist.dacReads < MaxDacData
        /\ VgaReadPort(Port)

NextDac == DacWrite \/ DacRead

SpecDac == Init /\ [][NextDac]_vars

\* C5: after k is written to DAC_WRITE_INDEX and n bytes to DAC_DATA, the
\* DAC index is (k + n) mod PALETTE_SIZE, the byte written last is stored at
\* entry (k + n - 1) mod PALETTE_SIZE as (input & 0x3F), and the DAC index is
\* below PALETTE_SIZE in every state.
C5_DacAutoIncrement ==
    /\ VgaDacIndex < VGA_PALETTE_SIZE
    /\ hist.dacPort = VGA_DAC_WRITE_INDEX =>
           VgaDacIndex = (hist.dacK + hist.dacN) % VGA_PALETTE_SIZE
    /\ (/\ hist.dacPort = VGA_DAC_WRITE_INDEX
        /\ lastOp.op = "WritePort"
        /\ lastOp.a = VGA_DAC_DATA) =>
           Load(VgaDacRegisters,
                (hist.dacK + hist.dacN - 1) % VGA_PALETTE_SIZE)
               = lastOp.d % 64

\* C6, as stated: a read of DAC_READ_INDEX returns 0 when the last DAC index
\* port written was DAC_READ_INDEX, and 3 when it was DAC_WRITE_INDEX.
C6_ReadIndexAsStated ==
    (/\ lastOp.op = "ReadPort"
     /\ lastOp.a = VGA_DAC_READ_INDEX
     /\ hist.dacPort # 0) =>
        lastOp.r = IF hist.dacPort = VGA_DAC_READ_INDEX THEN 0 ELSE 3

\* C6, amended: a read of DAC_READ_INDEX returns 3 when the DAC is in read
\* mode (the last DAC index port written was DAC_READ_INDEX, or none has been
\* written since initialisation) and 0 when it is in write mode (the last
\* one written was DAC_WRITE_INDEX).
C6_ReadIndexState ==
    (/\ lastOp.op = "ReadPort"
     /\ lastOp.a = VGA_DAC_READ_INDEX) =>
        lastOp.r = IF hist.dacPort = VGA_DAC_WRITE_INDEX THEN 0 ELSE 3

\* A read of DAC_READ_INDEX after DAC_READ_INDEX was written and data read.
C6_ReadIndexInReadMode ==
    /\ lastOp.op = "ReadPort"
    /\ lastOp.a = VGA_DAC_READ_INDEX
    /\ hist.dacPort = VGA_DAC_READ_INDEX
    /\ hist.dacReads > 0
    /\ lastOp.r = 3

\* C20: the DAC data port is gated by the direction.  A write of DAC_DATA
\* in the read direction changes no DAC entry and not the index; a read of
\* DAC_DATA in the write direction returns 0 and leaves the index; a read
\* of DAC_DATA in the read direction returns the entry at the index and
\* advances the index by one modulo PALETTE_SIZE; no other read moves it.
C20_DacDataGated ==
    [][/\ (/\ lastOp'.op = "WritePort"
            /\ lastOp'.a = VGA_DAC_DATA
            /\ ~VgaDacReadWrite)
               => UNCHANGED <<VgaDacRegisters, VgaDacIndex>>
       /\ (/\ lastOp'.op = "ReadPort"
            /\ lastOp'.a = VGA_DAC_DATA
            /\ VgaDacReadWrite)
               => lastOp'.r = 0 /\ UNCHANGED VgaDacIndex
       /\ (/\ lastOp'.op = "ReadPort"
            /\ lastOp'.a = VGA_DAC_DATA
            /\ ~VgaDacReadWrite)
               => /\ lastOp'.r = Load(VgaDacRegisters, VgaDacIndex)
                  /\ VgaDacIndex' = (VgaDacIndex + 1) % VGA_PALETTE_SIZE
       /\ (/\ lastOp'.op = "ReadPort"
            /\ ~(lastOp'.a = VGA_DAC_DATA /\ ~VgaDacReadWrite))
               => UNCHANGED VgaDacIndex]_vars

(***************************************************************************)
(* The attribute controller port and the status ports, under a guest that  *)
(* writes AC_INDEX and polls the status register while the display is      *)
(* refreshed in the BIOS text mode.                                        *)
(***************************************************************************)
\* Writes of AC_INDEX that follow one status read.
MaxAcWrites == 4

\* The bytes written to AC_INDEX: two register numbers and two bytes that
\* name no register.
AcBytes == {VGA_AC_PAL_0_REG, VGA_AC_CONTROL_REG, VGA_AC_MAX_REG, 255}

AcWrite ==
    \E Data \in AcBytes :
        /\ hist.acWrites < MaxAcWrites
        /\ VgaWritePort(VGA_AC_INDEX, Data)

StatusRead == \E Port \in StatusPorts : VgaReadPort(Port)

Refresh ==
    \/ \E Created \in BOOLEAN : RefreshBegin(Created)
    \/ ScanOutBegin
    \/ ScanOutLoop
    \/ ScanOutEnd
    \/ RefreshEnd

NextAc == AcWrite \/ StatusRead \/ VgaHorizontalRetrace \/ Refresh

SpecAc == InitSmall /\ [][NextAc]_vars

\* C4: counted from the last status read (or from initialisation, where the
\* latch is reset), the odd-numbered writes of AC_INDEX set the index and the
\* even-numbered ones write data, whatever the bytes are; the first write
\* after a read of STAT_MONO or STAT_COLOR is the first of a new count.
C4_AcLatchParity ==
    /\ VgaAcLatch = (hist.acWrites % 2 = 1)
    /\ (lastOp.op = "WritePort" /\ lastOp.a = VGA_AC_INDEX) =>
           lastOp.br = IF hist.acWrites % 2 = 1 THEN "index" ELSE "data"
    /\ (lastOp.op = "ReadPort" /\ lastOp.a \in StatusPorts) =>
           hist.acWrites = 0 /\ ~VgaAcLatch

\* The third AC_INDEX write since the last status read set the index, after
\* a first one whose byte names no register.
C4_ThirdWriteSetsIndex ==
    /\ lastOp.op = "WritePort"
    /\ lastOp.a = VGA_AC_INDEX
    /\ hist.acWrites = 3
    /\ lastOp.br = "index"
    /\ lastOp.d = VGA_AC_CONTROL_REG
    /\ VgaAcIndex = VGA_AC_CONTROL_REG
    /\ VgaAcRegisters[VGA_AC_CONTROL_REG] = 255

\* C10: a status read returns DD exactly when a horizontal retrace or a
\* refresh came since the previous status read, and VRETRACE exactly when a
\* refresh did; so the read after a retrace event has DD set and a second
\* read with no event in between has both bits clear.
C10_RetraceConsumed ==
    (lastOp.op = "ReadPort" /\ lastOp.a \in StatusPorts) =>
        /\ lastOp.r = (IF lastOp.br # "" THEN VGA_STAT_DD ELSE 0)
                      + (IF lastOp.br \in {"v", "hv"} THEN VGA_STAT_VRETRACE
                         ELSE 0)
        /\ ~InHorizontalRetrace
        /\ ~InVerticalRetrace

\* A status read that returned both bits clear, right after one that
\* returned DD and VRETRACE.
C10_SecondReadClear ==
    /\ lastOp.op = "ReadPort"
    /\ lastOp.a \in StatusPorts
    /\ hist.statusBefore = VGA_STAT_DD + VGA_STAT_VRETRACE
    /\ lastOp.r = 0

(***************************************************************************)
(* Video memory under a guest that has programmed the sequencer, the       *)
(* graphics controller and the CRTC, and then writes bytes into the        *)
(* aperture and reads them back.                                           *)
(***************************************************************************)
\* Calls of VgaWriteMemory in one behaviour.
MaxMemWrites == 1

\* SEQ plane mask: all planes, plane 0 (with a high bit set), plane 1,
\* and no plane (with a high bit set).
MaskBytes == {15, 17, 2, 16}

\* SEQ memory mode: chain-4 clear, chain-4 set.
SeqMemBytes == {2, 10}

\* GC mode: odd-even set, odd-even clear.
GcModeBytes == {16, 0}

\* GC misc: the 32 KiB aperture at B8000, the 64 KiB aperture at A0000.
GcMiscBytes == {14, 4}

\* CRTC underline and mode control: word, byte and dword addressing.
AddressingBytes == {<<31, 163>>, <<31, 227>>, <<95, 163>>}

\* Offsets into the aperture: the first sixteen bytes, the middle of a
\* 64 KiB aperture and its last byte.
MemOffsets == (0 .. 15) \cup {32768, 65535}

\* The buffers written.
MemBuffers == {<<90>>, <<17, 34>>, <<17, 34, 51, 68>>}

\* The byte the caller's buffer holds before a read.
BufferFill == 238

\* Video memory as earlier planar writes with all planes enabled left it:
\* FillByte in the first FillSize bytes of every plane.
FillByte == 119

FillSize == 4

Filled ==
    [k \in {p * VGA_BANK_SIZE + o :
                p \in 0 .. VGA_NUM_BANKS - 1, o \in 0 .. FillSize - 1} |->
        FillByte]

\* The miscellaneous output register: as the BIOS left it, and with video
\* RAM disabled.
MiscBytes == {BiosMisc, BiosMisc - VGA_MISC_RAM_ENABLED}

InitMem ==
    \E Mask \in MaskBytes, Mem \in SeqMemBytes, Mode \in GcModeBytes,
       Misc \in GcMiscBytes, Addressing \in AddressingBytes,
       MiscReg \in MiscBytes :
        Programmed(MiscReg,
                   [BiosSeq EXCEPT ![VGA_SEQ_MASK_REG] = Mask,
                                   ![VGA_SEQ_MEM_REG] = Mem],
                   [BiosGc EXCEPT ![VGA_GC_MODE_REG] = Mode,
                                  ![VGA_GC_MISC_REG] = Misc],
                   [BiosCrtc EXCEPT
                       ![VGA_CRTC_UNDERLINE_REG] = Addressing[1],
                       ![VGA_CRTC_MODE_CONTROL_REG] = Addressing[2]],
                   BiosAc, TRUE, Filled)

InAperture(Address, Size) ==
    /\ Address >= VgaGetVideoBaseAddress
    /\ Address + Size - 1 <= VgaGetVideoLimitAddress

MemWrite ==
    \E Offset \in MemOffsets, Buffer \in MemBuffers :
        /\ hist.memWrites < MaxMemWrites
        /\ InAperture(VgaGetVideoBaseAddress + Offset, Len(Buffer))
        /\ VgaWriteMemory(VgaGetVideoBaseAddress + Offset, Buffer)

\* The guest reads back what it wrote last.
MemRead ==
    /\ Len(hist.written) = 2
    /\ VgaReadMemory(hist.written[1],
                     [i \in 1 .. Len(hist.written[2]) |-> BufferFill])

NextMem == MemWrite \/ MemRead

SpecMem == InitMem /\ [][NextMem]_vars

\* The plane that byte k of VgaMemory belongs to.
PlaneOf(k) == k \div VGA_BANK_SIZE

\* The bytes of VgaMemory that a step changes.
Changed ==
    {k \in (DOMAIN VgaMemory) \cup (DOMAIN VgaMemory') :
        Load(VgaMemory, k) # Load(VgaMemory', k)}

\* C7: a call of VgaWriteMemory inside the aperture, all of whose stores
\* fall inside VgaMemory, changes only bytes of planes whose bit is set in
\* the SEQ plane mask, in every addressing mode and address size.
C7_PlaneMaskGating ==
    [][(lastOp'.op = "WriteMemory" /\ lastOp'.br = "ok") =>
           \A k \in Changed :
               Test(VgaSeqRegisters[VGA_SEQ_MASK_REG], 2 ^ PlaneOf(k))]_vars

\* C8: with RAM enabled, chain-4 set and all four planes writable, reading
\* back the bytes just written at addresses in [base, base + 16) returns
\* them, in every address size and with the odd-even bit set or clear.
C8_Chain4RoundTrip ==
    (/\ lastOp.op = "ReadMemory"
     /\ Len(hist.written) = 2
     /\ lastOp.a = hist.written[1]
     /\ lastOp.a + Len(lastOp.d) <= VgaGetVideoBaseAddress + 16
     /\ RamEnabled
     /\ Chain4
     /\ PlaneMask = 15) =>
        lastOp.r = hist.written[2]

\* Byte 90 written at base + 6 and read back with chain-4 and odd-even both
\* set and dword addressing.
C8_RoundTripWithOddEven ==
    /\ lastOp.op = "ReadMemory"
    /\ hist.written = <<VgaGetVideoBaseAddress + 6, <<90>>>>
    /\ lastOp.a = VgaGetVideoBaseAddress + 6
    /\ lastOp.r = <<90>>
    /\ RamEnabled
    /\ Chain4
    /\ OddEven
    /\ PlaneMask = 15
    /\ VgaGetAddressSize = 4

\* C9: with RAM enabled, odd-even set, chain-4 clear and a non-zero plane
\* mask, a byte written to an even address changes only bytes of planes 0
\* and 2, and a byte written to an odd address only bytes of planes 1 and 3.
C9_OddEvenPlanes ==
    [][(/\ lastOp'.op = "WriteMemory"
        /\ lastOp'.br = "ok"
        /\ Len(lastOp'.d) = 1
        /\ RamEnabled
        /\ OddEven
        /\ ~Chain4
        /\ PlaneMask # 0) =>
           \A k \in Changed : PlaneOf(k) % 2 = lastOp'.a % 2]_vars

\* C16: while the RAM-enable bit of the miscellaneous register is clear,
\* VgaWriteMemory changes no byte of video memory and VgaReadMemory leaves
\* the caller's buffer as it was; VgaWriteMemory changes nothing either
\* while the low four bits of the plane mask are all clear.
C16_DisabledAccessIgnored ==
    [][/\ (lastOp'.op = "WriteMemory" /\ (~RamEnabled \/ PlaneMask = 0))
            => /\ VgaMemory' = VgaMemory
               /\ VgaMiscRegister' = VgaMiscRegister
               /\ lastOp'.br = "ok"
       /\ (lastOp'.op = "ReadMemory" /\ ~RamEnabled)
            => /\ lastOp'.r = lastOp'.d
               /\ lastOp'.br = "ok"
               /\ VgaMemory' = VgaMemory]_vars

\* With video RAM disabled and all planes enabled, the guest has written
\* two bytes into memory that held other bytes and read them back: memory
\* is as it was and the buffer still holds what the caller put there.
C16_ReadBackWhileDisabled ==
    /\ ~RamEnabled
    /\ PlaneMask = 15
    /\ lastOp.op = "ReadMemory"
    /\ lastOp.a = VgaGetVideoBaseAddress
    /\ lastOp.d = <<BufferFill, BufferFill>>
    /\ lastOp.r = <<BufferFill, BufferFill>>
    /\ hist.written = <<VgaGetVideoBaseAddress, <<17, 34>>>>
    /\ VgaMemory = Filled

\* C19: with RAM enabled, chain-4 set and all four planes writable, the byte
\* written to aperture offset o is stored in plane o mod 4 at the offset
\* (o div 4) * address size of that plane, and the call changes no other
\* byte of video memory.
C19_Chain4Placement ==
    [][(/\ lastOp'.op = "WriteMemory"
        /\ RamEnabled
        /\ Chain4
        /\ PlaneMask = 15)
          => LET o == lastOp'.a - VgaGetVideoBaseAddress
                 Buffer == lastOp'.d
                 Target(i) == ((o + i) % 4) * VGA_BANK_SIZE
                              + ((o + i) \div 4) * VgaGetAddressSize
             IN  /\ lastOp'.br = "ok"
                 /\ \A i \in 0 .. Len(Buffer) - 1 :
                        /\ Load(VgaMemory', Target(i)) = Buffer[i + 1]
                        /\ PlaneOf(Target(i)) = (o + i) % 4
                 /\ Changed \subseteq
                        {Target(i) : i \in 0 .. Len(Buffer) - 1}]_vars

\* The bytes 0x11, 0x22, 0x33 and 0x44, written to offsets 0 to 3 with
\* chain-4 set, are the first bytes of planes 0, 1, 2 and 3; the second
\* byte of every plane holds what it held before.
C19_FourBytesFourPlanes ==
    /\ lastOp.op = "WriteMemory"
    /\ lastOp.a = VgaGetVideoBaseAddress
    /\ lastOp.d = <<17, 34, 51, 68>>
    /\ RamEnabled
    /\ Chain4
    /\ PlaneMask = 15
    /\ \A p \in 0 .. VGA_NUM_BANKS - 1 :
           /\ Load(VgaMemory, p * VGA_BANK_SIZE) = lastOp.d[p + 1]
           /\ Load(VgaMemory, p * VGA_BANK_SIZE + 1) = FillByte

(***************************************************************************)
(* Mode switches: a guest that turns the graphics bit of GC_MISC on and    *)
(* off and draws, a display that is refreshed, a host that may fail to     *)
(* create a surface, and the host's repainter.                             *)
(***************************************************************************)
\* GC misc at the B8000 aperture: alphanumeric, graphics.
ModeBytes == {14, 15}

ModeWrite ==
    \/ VgaWritePort(VGA_GC_INDEX, VGA_GC_MISC_REG)
    \/ \E Data \in ModeBytes :
           /\ VgaGcIndex = VGA_GC_MISC_REG
           /\ VgaWritePort(VGA_GC_DATA, Data)

\* The guest stores a byte in the first cell of the display.
Draw ==
    /\ hist.memWrites < MaxMemWrites
    /\ VgaWriteMemory(VgaGetVideoBaseAddress, <<90>>)

Repaint ==
    \E id \in DOMAIN HostGraphics : RepaintBegin(id) \/ RepaintEnd(id)

NextMode ==
    \/ ModeWrite
    \/ Draw
    \/ MemRead
    \/ StatusRead
    \/ VgaHorizontalRetrace
    \/ Refresh
    \/ Repaint

SpecMode == InitSmall /\ [][NextMode]_vars

\* Whether the core's handles name a live host surface of each kind.
OwnsText ==
    /\ ConsoleFramebuffer.kind = "heap"
    /\ ConsoleFramebuffer.id \in DOMAIN HostHeap

OwnsGraphics ==
    /\ GraphicsConsoleBuffer.kind = "surface"
    /\ GraphicsConsoleBuffer.id \in DOMAIN HostGraphics
    /\ ConsoleMutex.kind = "mutex"
    /\ ConsoleMutex.id \in DOMAIN HostGraphics
    /\ ConsoleFramebuffer.kind = "bitmap"
    /\ ConsoleFramebuffer.id \in DOMAIN HostGraphics

\* C1: between calls, the core owns exactly one host surface, the one that
\* matches TextMode: the text cell buffer when TextMode is true, the
\* graphics surface with its mutex when TextMode is false.
C1_SurfaceMatchesTextMode ==
    pc = "idle" =>
        /\ TextMode => (OwnsText /\ ~OwnsGraphics)
        /\ ~TextMode => (OwnsGraphics /\ ~OwnsText)
        /\ Cardinality(DOMAIN HostHeap) + Cardinality(DOMAIN HostGraphics) = 1

\* C2: when the refresh that handles ModeChanged cannot create the graphics
\* surface, its mode switch leaves TextMode as it was and releases nothing:
\* the surface owned before is still there and still the core's.
C2_FailedSwitchKeepsSurface ==
    [][(/\ lastOp'.op = "Refresh"
        /\ lastOp'.br = "failed"
        /\ pc = "idle"
        /\ pc' # "idle"
        /\ NoAlpha) =>
           /\ TextMode' = TextMode
           /\ HostHeap' = HostHeap
           /\ HostGraphics' = HostGraphics
           /\ ConsoleFramebuffer' = ConsoleFramebuffer
           /\ GraphicsConsoleBuffer' = GraphicsConsoleBuffer
           /\ ConsoleMutex' = ConsoleMutex]_vars

\* C3: the pixel loop of a graphics scan-out runs to its end only while the
\* core owns the graphics mutex, so never while the repainter may paint, and
\* between calls the core owns no mutex.
C3_MutexAcrossScanOut ==
    /\ ~hist.unlocked
    /\ pc = "idle" =>
           \A id \in DOMAIN HostGraphics : HostGraphics[id].owner # "core"

\* C13: a mode change takes effect only at a refresh.  The port and memory
\* calls and the horizontal retrace change neither TextMode nor any host
\* surface nor the core's handles; a write of the graphics-controller
\* miscellaneous register sets ModeChanged; and while the refresh that
\* handles it scans out, surface creation having succeeded, TextMode is the
\* negation of the NOALPHA bit and the surface of that mode is owned.
C13_ModeChangeAtRefresh ==
    /\ [][(/\ ~hist'.host
            /\ lastOp'.op \in {"WritePort", "ReadPort", "WriteMemory",
                               "ReadMemory", "HorizontalRetrace"})
             => /\ UNCHANGED <<TextMode, GraphicsConsoleBuffer,
                               ConsoleFramebuffer, ConsoleMutex, HostHeap,
                               HostGraphics>>
                /\ (lastOp'.op = "WritePort" /\ lastOp'.a = VGA_GC_DATA
                    /\ VgaGcIndex = VGA_GC_MISC_REG) => ModeChanged']_vars
    /\ [](pc \in {"scan", "loop", "unlock"} /\ lastOp.br = "switched"
            => /\ TextMode = ~NoAlpha
               /\ IF TextMode THEN OwnsText /\ ~OwnsGraphics
                              ELSE OwnsGraphics /\ ~OwnsText)

\* A refresh scans out in graphics mode after the guest set the NOALPHA bit
\* in text mode and the host created the graphics surface.
C13_SwitchedToGraphics ==
    /\ pc = "loop"
    /\ lastOp.br = "switched"
    /\ ~TextMode
    /\ NoAlpha
    /\ OwnsGraphics

\* C14: every mode transition releases the surface owned before it acquires
\* the new one.  At most one host surface created by the core is live in
\* any state, and after a transition the only live surface is the blank one
\* that the transition created: none when its creation failed.
C14_OneSurfaceLive ==
    /\ [](Cardinality(DOMAIN HostHeap) + Cardinality(DOMAIN HostGraphics) <= 1)
    /\ [][(lastOp'.op = "Refresh" /\ pc = "idle" /\ pc' # "idle"
            /\ ModeChanged)
             => /\ lastOp'.br = "failed"
                    => DOMAIN HostHeap' = {} /\ DOMAIN HostGraphics' = {}
                /\ (lastOp'.br = "switched" /\ NoAlpha)
                    => /\ DOMAIN HostHeap' = {}
                       /\ OwnsGraphics'
                       /\ HostGraphics'[ConsoleFramebuffer'.id].bits = Zeroed
                /\ (lastOp'.br = "switched" /\ ~NoAlpha)
                    => /\ DOMAIN HostGraphics' = {}
                       /\ OwnsText'
                       /\ HostHeap'[ConsoleFramebuffer'.id].cells = Zeroed]_vars

\* The display is back in text mode after a graphics mode was entered and
\* left: the text cell buffer is the only live surface.
C14_BackToText ==
    /\ pc = "scan"
    /\ lastOp.br = "switched"
    /\ TextMode
    /\ hist.unowned
    /\ OwnsText
    /\ DOMAIN HostGraphics = {}

(***************************************************************************)
(* The four indexed banks under a guest that writes in-range and           *)
(* out-of-range bytes to the index ports, writes the data ports and reads  *)
(* both back.                                                              *)
(***************************************************************************)
\* For each bank: its index port, its data port for writes, its data port
\* for reads and its register count.
Banks ==
    {[index |-> VGA_SEQ_INDEX, data |-> VGA_SEQ_DATA, read |-> VGA_SEQ_DATA,
      max |-> VGA_SEQ_MAX_REG],
     [index |-> VGA_GC_INDEX, data |-> VGA_GC_DATA, read |-> VGA_GC_DATA,
      max |-> VGA_GC_MAX_REG],
     [index |-> VGA_CRTC_INDEX, data |-> VGA_CRTC_DATA,
      read |-> VGA_CRTC_DATA, max |-> VGA_CRTC_MAX_REG],
     [index |-> VGA_AC_INDEX, data |-> VGA_AC_INDEX, read |-> VGA_AC_READ,
      max |-> VGA_AC_MAX_REG]}

\* The bytes written to the index port of a bank: its last register, the
\* first byte past it and the largest byte.
IndexBytes(b) == {b.max - 1, b.max, 255}

\* The byte written to the data ports.
RegDataBytes == {170}

IndexWrite ==
    \E b \in Banks : \E Data \in IndexBytes(b) :
        /\ hist.portWrites < MaxPortWrites
        /\ VgaWritePort(b.index, Data)

DataWrite ==
    \E b \in Banks \ {bb \in Banks : bb.index = VGA_AC_INDEX} :
        \E Data \in RegDataBytes :
            /\ hist.portWrites < MaxPortWrites
            /\ VgaWritePort(b.data, Data)

RegRead == \E b \in Banks : \E Port \in {b.index, b.read} : VgaReadPort(Port)

NextRegs == IndexWrite \/ DataWrite \/ RegRead \/ StatusRead

SpecRegs == Init /\ [][NextRegs]_vars

\* C11: in every reachable state the sequencer, graphics-controller, CRTC
\* and attribute-controller index registers are each below the register
\* count of their bank, so a data-port access stays inside the bank.
C11_IndexInBank ==
    /\ VgaSeqIndex \in 0..(VGA_SEQ_MAX_REG - 1)
    /\ VgaGcIndex \in 0..(VGA_GC_MAX_REG - 1)
    /\ VgaCrtcIndex \in 0..(VGA_CRTC_MAX_REG - 1)
    /\ VgaAcIndex \in 0..(VGA_AC_MAX_REG - 1)

\* The sequencer data port is written after the index port was given its
\* last register and then the largest byte: the byte lands in the last
\* register of the bank.
C11_DataAfterOutOfRange ==
    /\ lastOp.op = "WritePort"
    /\ lastOp.a = VGA_SEQ_DATA
    /\ hist.portWrites = 3
    /\ VgaSeqIndex = VGA_SEQ_MAX_REG - 1
    /\ Load(VgaSeqRegisters, VGA_SEQ_MAX_REG - 1) = lastOp.d
    /\ hist.dropped = VGA_SEQ_INDEX

\* C12: a write of an out-of-range byte to an index port (for the attribute
\* controller: while the latch selects the index) is dropped: the index
\* register keeps its value, and no register of any bank, nor the
\* miscellaneous register, nor ModeChanged or CursorMoved, changes.
C12_OutOfRangeDropped ==
    [][(/\ lastOp'.op = "WritePort"
        /\ \E b \in Banks :
              /\ lastOp'.a = b.index
              /\ lastOp'.d >= b.max
              /\ b.index = VGA_AC_INDEX => ~VgaAcLatch)
          => UNCHANGED <<VgaSeqIndex, VgaGcIndex, VgaCrtcIndex, VgaAcIndex,
                         VgaSeqRegisters, VgaGcRegisters, VgaCrtcRegisters,
                         VgaAcRegisters, VgaMiscRegister, ModeChanged,
                         CursorMoved>>]_vars

\* The attribute controller's index port was given its last register, then
\* a data byte, then a byte that names no register: the index is still the
\* last register and the latch has moved on to data.
C12_AcOutOfRangeDropped ==
    /\ lastOp = Op("WritePort", VGA_AC_INDEX, VGA_AC_MAX_REG, 0, "index")
    /\ hist.portWrites = 3
    /\ VgaAcIndex = VGA_AC_MAX_REG - 1
    /\ VgaAcLatch

(***************************************************************************)
(* Scan-out from a start address: a guest that moves the CRTC start        *)
(* address to the end of the planes and switches between the text and the  *)
(* graphics mode, and a display that is refreshed again and again.         *)
(***************************************************************************)
\* CRTC start address high: the start of the planes, their end.
StartBytes == {0, 255}

StartWrite ==
    \/ VgaWritePort(VGA_CRTC_INDEX, VGA_CRTC_START_ADDR_HIGH_REG)
    \/ \E Data \in StartBytes :
           /\ VgaCrtcIndex = VGA_CRTC_START_ADDR_HIGH_REG
           /\ VgaWritePort(VGA_CRTC_DATA, Data)

NextScan == StartWrite \/ ModeWrite \/ StatusRead \/ Refresh

SpecScan == InitSmall /\ [][NextScan]_vars

\* C15: a refresh that follows a complete refresh, with no port write and no
\* memory write of the guest in between, changes no cell of the text buffer
\* and no pixel of the graphics surface.
C15_SecondRefreshChangesNothing ==
    [][(pc = "loop" /\ hist.quiet)
          => /\ HostHeap' = HostHeap
             /\ \A id \in DOMAIN HostGraphics :
                    HostGraphics'[id].bits = HostGraphics[id].bits]_vars

(***************************************************************************)
(* The 256-colour graphics geometry: a guest that writes Mode13Program     *)
(* through the ports, and a display that is refreshed at any point of the  *)
(* program.                                                                *)
(***************************************************************************)
ProgramWrite ==
    /\ hist.programmed < Len(Mode13Program)
    /\ VgaWritePort(Mode13Program[hist.programmed + 1][1],
                    Mode13Program[hist.programmed + 1][2])

NextRes == ProgramWrite \/ Refresh

SpecRes == InitSmall /\ [][NextRes]_vars

\* The registers hold what C17 sets them to.
Mode13Registers ==
    /\ NoAlpha
    /\ Test(VgaSeqRegisters[VGA_SEQ_CLOCK_REG], VGA_SEQ_CLOCK_98DM)
    /\ Test(VgaAcRegisters[VGA_AC_CONTROL_REG], VGA_AC_CONTROL_8BIT)
    /\ VgaCrtcRegisters[VGA_CRTC_END_HORZ_DISP_REG] = 39
    /\ VgaCrtcRegisters[VGA_CRTC_VERT_DISP_END_REG] = 199
    /\ VgaCrtcRegisters[VGA_CRTC_MAX_SCAN_LINE_REG] = 1
    /\ VgaCrtcRegisters[VGA_CRTC_OVERFLOW_REG] = 0

\* C17 as stated: with the registers so set the derived resolution is 320
\* by 200, and TextMode is false once a refresh has switched the mode.
C17_Resolution320x200 ==
    Mode13Registers =>
        /\ VgaGetDisplayResolution = <<320, 200>>
        /\ (lastOp.op = "Refresh" /\ lastOp.br = "switched") => ~TextMode

\* C17: with the registers so set the derived resolution is 160 by 100:
\* (39 + 1) * 8 / 2 columns and (199 + 1) / (1 + 1) rows; and TextMode is
\* false once a refresh has switched the mode.
C17_Resolution160x100 ==
    Mode13Registers =>
        /\ VgaGetDisplayResolution = <<160, 100>>
        /\ (lastOp.op = "Refresh" /\ lastOp.br = "switched") => ~TextMode

\* The guest has written the whole program and the refresh that followed
\* has created the graphics surface, 160 by 100, and scanned out into it.
C17_Mode13Refreshed ==
    /\ Mode13Registers
    /\ hist.programmed = Len(Mode13Program)
    /\ lastOp.op = "Refresh"
    /\ lastOp.br = "switched"
    /\ pc = "idle"
    /\ ~TextMode
    /\ OwnsGraphics
    /\ HostGraphics[GraphicsConsoleBuffer.id].X = 160
    /\ HostGraphics[GraphicsConsoleBuffer.id].Y = 100

(***************************************************************************)
(* The text cursor: a guest that writes the cursor location, the cursor    *)
(* end with its skew and the offset register, and a display that is        *)
(* refreshed.                                                              *)
(***************************************************************************)
\* The bytes written to each of the registers: location 0x00A0, 0xFFFF and
\* in between, a cursor end with skew 3, and offsets 1 and 0.
CursorBytes ==
    [r \in {VGA_CRTC_CURSOR_LOC_HIGH_REG, VGA_CRTC_CURSOR_LOC_LOW_REG,
             VGA_CRTC_CURSOR_END_REG, VGA_CRTC_OFFSET_REG} |->
        IF r = VGA_CRTC_CURSOR_LOC_HIGH_REG THEN {0, 255}
        ELSE IF r = VGA_CRTC_CURSOR_LOC_LOW_REG THEN {160, 255}
        ELSE IF r = VGA_CRTC_CURSOR_END_REG THEN {110}
        ELSE {1, 0}]

CursorWrite ==
    \E r \in DOMAIN CursorBytes :
        \/ VgaWritePort(VGA_CRTC_INDEX, r)
        \/ \E Data \in CursorBytes[r] :
               /\ VgaCrtcIndex = r
               /\ VgaWritePort(VGA_CRTC_DATA, Data)

NextCursor == CursorWrite \/ Refresh

SpecCursor == InitSmall /\ [][NextCursor]_vars

\* C18: the refresh that handles CursorMoved publishes the cursor at column
\* L mod S and row L div S, where S is twice the CRTC offset and L is the
\* 16-bit cursor location (high and low byte) plus the skew, bits 5 and 6
\* of the cursor end register.
C18_CursorPosition ==
    [][(lastOp'.op = "Refresh" /\ pc = "idle" /\ pc' = "scan" /\ CursorMoved)
          => LET S == 2 * VgaCrtcRegisters[VGA_CRTC_OFFSET_REG]
                 L == (256 * VgaCrtcRegisters[VGA_CRTC_CURSOR_LOC_HIGH_REG]
                       + VgaCrtcRegisters[VGA_CRTC_CURSOR_LOC_LOW_REG]
                       + ((VgaCrtcRegisters[VGA_CRTC_CURSOR_END_REG] \div 32)
                          % 4)) % 65536
             IN  /\ HostCursor'.X = L % S
                 /\ HostCursor'.Y = L \div S
                 /\ ~CursorMoved']_vars

\* Cursor location 0x00A0 with offset 40 and no skew: a refresh has
\* published the cursor at column 0 of row 2.
C18_ColumnZeroRowTwo ==
    /\ VgaCrtcRegisters[VGA_CRTC_CURSOR_LOC_HIGH_REG] = 0
    /\ VgaCrtcRegisters[VGA_CRTC_CURSOR_LOC_LOW_REG] = 160
    /\ VgaCrtcRegisters[VGA_CRTC_OFFSET_REG] = 40
    /\ VgaCrtcRegisters[VGA_CRTC_CURSOR_END_REG] \div 32 = 0
    /\ lastOp.op = "Refresh"
    /\ ~CursorMoved
    /\ HostCursor.X = 0
    /\ HostCursor.Y = 2

(***************************************************************************)
(* The flags that port writes raise: a guest that selects one register of  *)
(* one bank and then writes data ports, after a refresh has cleared both   *)
(* flags.                                                                  *)
(***************************************************************************)
FlagWrite ==
    \/ \E Port \in {VGA_SEQ_INDEX, VGA_GC_INDEX, VGA_CRTC_INDEX,
                     VGA_AC_INDEX} :
           \E Data \in 0 .. VGA_CRTC_MAX_REG - 1 :
               /\ hist.portWrites = 0
               /\ VgaWritePort(Port, Data)
    \/ \E Port \in {VGA_SEQ_DATA, VGA_GC_DATA, VGA_CRTC_DATA, VGA_AC_INDEX,
                     VGA_DAC_WRITE_INDEX, VGA_DAC_READ_INDEX, VGA_DAC_DATA,
                     VGA_MISC_WRITE} :
           \E Data \in {0, 1} :
               /\ hist.portWrites < MaxPortWrites
               /\ VgaWritePort(Port, Data)

SpecFlags == InitSmall /\ [][FlagWrite]_vars

\* C21: a data-port write stores the byte in the register that the index
\* selects.  A GC_DATA write raises ModeChanged iff the index is MISC; a
\* CRTC_DATA write raises ModeChanged iff the index is END_HORZ_DISP,
\* VERT_DISP_END or OVERFLOW and raises CursorMoved iff it is one of the
\* four cursor registers; every other port write leaves both flags as they
\* are, and no port write clears a flag.
C21_FlagsOfDataWrites ==
    [][lastOp'.op = "WritePort" =>
          LET Port == lastOp'.a
              Data == lastOp'.d
              Mode == \/ Port = VGA_GC_DATA /\ VgaGcIndex = VGA_GC_MISC_REG
                      \/ /\ Port = VGA_CRTC_DATA
                         /\ VgaCrtcIndex \in
                                {VGA_CRTC_END_HORZ_DISP_REG,
                                 VGA_CRTC_VERT_DISP_END_REG,
                                 VGA_CRTC_OVERFLOW_REG}
              Cursor == /\ Port = VGA_CRTC_DATA
                        /\ VgaCrtcIndex \in
                               {VGA_CRTC_CURSOR_LOC_LOW_REG,
                                VGA_CRTC_CURSOR_LOC_HIGH_REG,
                                VGA_CRTC_CURSOR_START_REG,
                                VGA_CRTC_CURSOR_END_REG}
          IN  /\ ModeChanged' = (ModeChanged \/ Mode)
              /\ CursorMoved' = (CursorMoved \/ Cursor)
              /\ Port = VGA_SEQ_DATA =>
                     VgaSeqRegisters' =
                         [VgaSeqRegisters EXCEPT ![VgaSeqIndex] = Data]
              /\ Port = VGA_GC_DATA =>
                     VgaGcRegisters' =
                         [VgaGcRegisters EXCEPT ![VgaGcIndex] = Data]
              /\ Port = VGA_CRTC_DATA =>
                     VgaCrtcRegisters' =
                         [VgaCrtcRegisters EXCEPT ![VgaCrtcIndex] = Data]
              /\ (Port = VGA_AC_INDEX /\ VgaAcLatch) =>
                     VgaAcRegisters' =
                         [VgaAcRegisters EXCEPT ![VgaAcIndex] = Data]]_vars

\* The overflow register was selected and written twice: the first write
\* raised ModeChanged, the second found it raised and left it so, and
\* CursorMoved has stayed clear.
C21_OverflowWrittenTwice ==
    /\ lastOp = Op("WritePort", VGA_CRTC_DATA, 1, 0, "")
    /\ hist.portWrites = 3
    /\ VgaCrtcIndex = VGA_CRTC_OVERFLOW_REG
    /\ VgaCrtcRegisters[VGA_CRTC_OVERFLOW_REG] = 1
    /\ ModeChanged
    /\ ~CursorMoved

(***************************************************************************)
(* Geometry and cursor between refreshes: a guest that switches between    *)
(* the text and the graphics mode, changes the number of scan lines per    *)
(* row and moves the cursor, and a display that is refreshed.              *)
(***************************************************************************)
GeometryWrite ==
    \E r \in {VGA_CRTC_MAX_SCAN_LINE_REG, VGA_CRTC_CURSOR_LOC_LOW_REG} :
        \/ VgaWritePort(VGA_CRTC_INDEX, r)
        \/ \E Data \in {0, 1} :
               /\ VgaCrtcIndex = r
               /\ VgaWritePort(VGA_CRTC_DATA, Data)

SpecGeometry == InitSmall /\ [][GeometryWrite \/ ModeWrite \/ Refresh]_vars

\* C22: when a refresh returns, ModeChanged, CursorMoved and NeedsUpdate are
\* false and InVerticalRetrace is true; a rectangle that was pending has
\* been handed to the host, for the mode that the registers select, and
\* nothing is handed over when none was pending.
C22_RefreshReturn ==
    [][(pc = "publish" /\ pc' = "idle")
          => /\ ~ModeChanged'
             /\ ~CursorMoved'
             /\ ~NeedsUpdate'
             /\ InVerticalRetrace'
             /\ NeedsUpdate =>
                    /\ HostUpdate'.rect = UpdateRectangle
                    /\ HostUpdate'.kind =
                           (IF NoAlpha THEN "graphics" ELSE "text")
             /\ ~NeedsUpdate => HostUpdate' = HostUpdate]_vars

\* A refresh has returned that switched to the graphics mode, moved the
\* cursor to column 1 and published the full update of the new surface.
C22_ReturnedAfterSwitchAndCursor ==
    /\ pc = "idle"
    /\ lastOp = Op("Refresh", 0, 0, 0, "switched")
    /\ HostCursor.X = 1
    /\ HostUpdate.kind = "graphics"
    /\ ~ModeChanged
    /\ ~CursorMoved
    /\ ~NeedsUpdate
    /\ InVerticalRetrace

(***************************************************************************)
(* The host mutex of the graphics surface.                                 *)
(***************************************************************************)
\* C23: the core never releases the mutex of the graphics surface while it
\* does not hold it: no ReleaseMutex, neither the one that ends the scan-out
\* nor the one in VgaLeaveGraphicsMode, has been called on a mutex that the
\* core did not own at the call.
C23_ReleaseOnlyWhenHeld == ~hist.unowned

(***************************************************************************)
(* The rectangle that a refresh hands to the host.                         *)
(***************************************************************************)
\* C26: a rectangle that a refresh publishes lies inside the display of the
\* refresh: 0 <= Left <= Right <= X - 1 and 0 <= Top <= Bottom <= Y - 1, for
\* the rectangles of the scan-out and for the full update of a mode switch.
C26_PublishedInsideDisplay ==
    [][(pc = "publish" /\ pc' = "idle" /\ NeedsUpdate)
          => LET r == HostUpdate'.rect
                 Resolution == HostUpdate'.Resolution
             IN  /\ 0 <= r.Left
                 /\ r.Left <= r.Right
                 /\ r.Right <= Resolution[1] - 1
                 /\ 0 <= r.Top
                 /\ r.Top <= r.Bottom
                 /\ r.Bottom <= Resolution[2] - 1]_vars

(***************************************************************************)
(* The divisor of the cursor position.                                     *)
(***************************************************************************)
\* C27: a refresh that handles CursorMoved divides the cursor location by a
\* scanline size, twice the CRTC offset, that is not zero, and so computes a
\* column and a row for every register state that port writes reach.
C27_ScanlineSizeNonZero ==
    [][(pc = "idle" /\ pc' \in {"scan", "crashed"} /\ CursorMoved)
          => /\ 2 * VgaCrtcRegisters[VGA_CRTC_OFFSET_REG] # 0
             /\ pc' = "scan"]_vars

(***************************************************************************)
(* The indices of VgaMemory that guest accesses use.                       *)
(***************************************************************************)
\* C25: for every guest address inside the aperture and every register
\* state, every index of VgaMemory that VgaReadMemory and VgaWriteMemory use
\* is below VGA_NUM_BANKS * VGA_BANK_SIZE.
C25_IndicesInsideVgaMemory ==
    [][/\ (/\ lastOp'.op = "WriteMemory"
           /\ InAperture(lastOp'.a, Len(lastOp'.d))
           /\ ~WriteIgnored)
              => \A i \in 0 .. Len(lastOp'.d) - 1 :
                     \A t \in WriteTargets(lastOp'.a + i) : t < VgaMemorySize
       /\ (/\ lastOp'.op = "ReadMemory"
           /\ InAperture(lastOp'.a, Len(lastOp'.d))
           /\ ~ReadIgnored)
              => \A i \in 0 .. Len(lastOp'.d) - 1 :
                     VgaTranslateReadAddress(lastOp'.a + i) < VgaMemorySize
      ]_vars

(***************************************************************************)
(* The resolution of the scan-out and the resolution of the surface.       *)
(***************************************************************************)
\* C24: whenever the scan-out runs on a live surface, the resolution that it
\* iterates over is the resolution with which that surface was created, and
\* so the cells that it touches are within the X * Y cells of the surface.
C24_ScanOutAtSurfaceResolution ==
    (pc = "loop" /\ FramebufferTarget.live) =>
        LET b == IF NoAlpha THEN HostGraphics[ConsoleFramebuffer.id]
                 ELSE HostHeap[ConsoleFramebuffer.id]
            Resolution == VgaGetDisplayResolution
        IN  /\ Resolution = <<b.X, b.Y>>
            /\ Resolution[1] * Resolution[2] <= FramebufferTarget.size

=============================================================================
